---- MODULE Spec2Model ----
(***************************************************************************)
(* zencfg: typed configuration classes (ConfigBase), the variant registry, *)
(* validated attribute assignment, the flat-to-nested normaliser and the   *)
(* nested builder, modelled as a state machine over a heap of Python       *)
(* objects.                                                                *)
(*                                                                         *)
(* Representation                                                          *)
(*  - a Python value is a tagged record: None, int, float (counted in      *)
(*    thousandths), str, a reference to a heap object (config instance or  *)
(*    list), or a mapping;                                                 *)
(*  - a Python dict (and an instance __dict__) is a sequence of            *)
(*    <<key, value>> pairs in insertion order;                             *)
(*  - a dotted key "a.b.c" is the sequence <<"a","b","c">> of its          *)
(*    segments, so key.split('.', 1) is <<Head, Tail>> and an f-string     *)
(*    join is a concatenation of sequences.                                *)
(***************************************************************************)
EXTENDS Integers, Sequences, FiniteSets, TLC

VARIABLES heap, registry, declared, live, res

vars == <<heap, registry, declared, live, res>>

(***************************************************************************)
(* Python values                                                           *)
(***************************************************************************)
NoneV == [k |-> "none"]

IntV(i) == [k |-> "int", n |-> i]

FloatV(m) == [k |-> "float", m |-> m]

StrV(s) == [k |-> "str", s |-> s]

RefV(r) == [k |-> "ref", r |-> r]

DictV(d) == [k |-> "dict", d |-> d]

\* floats are counted in thousandths: 0.001 is FloatV(1), 100.0 is FloatV(100000)
\* Python truthiness, as used by "if not config_name"
Falsy(v) ==
    \/ v.k = "none"
    \/ v.k = "str" /\ v.s = ""
    \/ v.k = "int" /\ v.n = 0
    \/ v.k = "float" /\ v.m = 0
    \/ v.k = "dict" /\ v.d = <<>>

\* Python ==  on the values of the model (1 == 1.0 is True)
PyEq(a, b) ==
    IF a.k = "int" /\ b.k = "float" THEN a.n * 1000 = b.m
    ELSE IF a.k = "float" /\ b.k = "int" THEN a.m = b.n * 1000
    ELSE a = b

(***************************************************************************)
(* Ordered dictionaries: sequences of <<key, value>>                       *)
(***************************************************************************)
KeysOf(d) == {d[i][1] : i \in DOMAIN d}

Has(d, key) == \E i \in DOMAIN d : d[i][1] = key

Get(d, key) == d[CHOOSE i \in DOMAIN d : d[i][1] = key][2]

Put(d, key, v) ==
    IF Has(d, key)
    THEN [i \in DOMAIN d |-> IF d[i][1] = key THEN <<key, v>> ELSE d[i]]
    ELSE Append(d, <<key, v>>)

(***************************************************************************)
(* Exceptions                                                              *)
(***************************************************************************)
NoExc == [type |-> "none", what |-> "", path |-> <<>>]

Exc(type, what, path) == [type |-> type, what |-> what, path |-> path]

(***************************************************************************)
(* str.lower() on the names the model uses                                 *)
(***************************************************************************)
Lower(s) ==
    CASE s = "ConfigBase" -> "configbase"
      [] s = "ModelConfig" -> "modelconfig"
      [] s = "DiT" -> "dit"
      [] s = "DIT" -> "dit"
      [] s = "Dit" -> "dit"
      [] s = "Unet" -> "unet"
      [] s = "CompositeModel" -> "compositemodel"
      [] s = "OptimizerConfig" -> "optimizerconfig"
      [] s = "AdamW" -> "adamw"
      [] s = "SchedulerConfig" -> "schedulerconfig"
      [] s = "Config" -> "config"
      [] s = "LayerConfig" -> "layerconfig"
      [] s = "NetConfig" -> "netconfig"
      [] s = "TrainConfig" -> "trainconfig"
      [] s = "FineTune" -> "finetune"
      [] s = "Pipeline" -> "pipeline"
      [] s = "BigPipeline" -> "bigpipeline"
      [] s = "NOT A MODEL" -> "not a model"
      [] s = "Success" -> "success"
      [] OTHER -> s

(***************************************************************************)
(* Declared types                                                          *)
(***************************************************************************)
TStr == [t |-> "str"]

TInt == [t |-> "int"]

TFloat == [t |-> "float"]

\* Optional[int]
TOptInt == [t |-> "optint"]

\* Union[int, List[int]]
TIntOrList == [t |-> "int_or_list"]

\* a ConfigBase subclass used as a type
TCfg(c) == [t |-> "cfg", c |-> c]

\* List[C] for a ConfigBase subclass C
TListCfg(c) == [t |-> "listcfg", c |-> c]

(***************************************************************************)
(* The declared classes.  parent is __bases__[0]; ann is the class's own   *)
(* __annotations__ in order; attrs are the public non-callable entries of  *)
(* the class body in order.  A default that is an object is a reference    *)
(* to the heap object created when the class body ran.                     *)
(***************************************************************************)
SchedulerDefault == 1

ConvLayerDefault == 2

LinearLayerDefault == 3

LayersDefault == 4

ClassTable ==
    [ ConfigBase |->
        [parent |-> "object",
         ann |-> << <<"_config_name", TStr>> >>,
         attrs |-> << >>],
      ModelConfig |->
        [parent |-> "ConfigBase",
         ann |-> << <<"version", TStr>> >>,
         attrs |-> << <<"version", StrV("0.1.0")>> >>],
      DiT |->
        [parent |-> "ModelConfig",
         ann |-> << <<"layers", TIntOrList>> >>,
         attrs |-> << <<"layers", IntV(16)>> >>],
      Unet |->
        [parent |-> "ModelConfig",
         ann |-> << <<"conv", TStr>> >>,
         attrs |-> << <<"conv", StrV("DISCO")>> >>],
      CompositeModel |->
        [parent |-> "ModelConfig",
         ann |-> << <<"submodel", TCfg("ModelConfig")>>, <<"num_heads", TInt>> >>,
         attrs |-> << <<"num_heads", IntV(4)>> >>],
      OptimizerConfig |->
        [parent |-> "ConfigBase",
         ann |-> << <<"lr", TFloat>> >>,
         attrs |-> << <<"lr", FloatV(1)>> >>],
      AdamW |->
        [parent |-> "OptimizerConfig",
         ann |-> << <<"weight_decay", TFloat>> >>,
         attrs |-> << <<"weight_decay", FloatV(10)>> >>],
      SchedulerConfig |->
        [parent |-> "ConfigBase",
         ann |-> << <<"patience", TFloat>> >>,
         attrs |-> << <<"patience", IntV(100)>> >>],
      Config |->
        [parent |-> "ConfigBase",
         ann |-> << <<"model", TCfg("ModelConfig")>>,
                    <<"opt", TCfg("OptimizerConfig")>>,
                    <<"scheduler", TCfg("SchedulerConfig")>> >>,
         attrs |-> << <<"scheduler", RefV(SchedulerDefault)>> >>],
      LayerConfig |->
        [parent |-> "ConfigBase",
         ann |-> << <<"type", TStr>>, <<"out_features", TOptInt>> >>,
         attrs |-> << <<"out_features", NoneV>> >>],
      NetConfig |->
        [parent |-> "ConfigBase",
         ann |-> << <<"layers", TListCfg("LayerConfig")>>, <<"name", TStr>> >>,
         attrs |-> << <<"layers", RefV(LayersDefault)>>, <<"name", StrV("MyNet")>> >>],
      TrainConfig |->
        [parent |-> "ConfigBase",
         ann |-> << <<"steps", TInt>>, <<"seed", TInt>> >>,
         attrs |-> << <<"seed", IntV(1)>> >>],
      FineTune |->
        [parent |-> "TrainConfig",
         ann |-> << <<"seed", TInt>> >>,
         attrs |-> << <<"seed", IntV(2)>> >>],
      Pipeline |->
        [parent |-> "ConfigBase",
         ann |-> << <<"backbone", TCfg("DiT")>> >>,
         attrs |-> << >>],
      BigPipeline |->
        [parent |-> "Pipeline",
         ann |-> << <<"depth", TInt>> >>,
         attrs |-> << <<"depth", IntV(1)>> >>],
      DIT |->
        [parent |-> "DiT",
         ann |-> << <<"depth", TInt>> >>,
         attrs |-> << <<"depth", IntV(2)>> >>],
      Dit |->
        [parent |-> "OptimizerConfig",
         ann |-> << <<"beta", TFloat>> >>,
         attrs |-> << <<"beta", FloatV(900)>> >>] ]

\* the classes in the order their class statements run
Decls ==
    << "ModelConfig", "DiT", "Unet", "CompositeModel", "OptimizerConfig", "AdamW",
       "SchedulerConfig", "Config", "LayerConfig", "NetConfig", "TrainConfig",
       "FineTune", "Pipeline", "BigPipeline" >>

\* the classes of a program that has run the class statements of Decls
Classes == {"ConfigBase"} \cup { Decls[i] : i \in DOMAIN Decls }

\* cls.__mro__ without object: the class first, ConfigBase last
RECURSIVE Mro(_)
Mro(c) == IF c = "ConfigBase" THEN <<c>> ELSE <<c>> \o Mro(ClassTable[c].parent)

\* reversed(cls.__mro__)
RECURSIVE RevMro(_)
RevMro(c) == IF c = "ConfigBase" THEN <<c>> ELSE Append(RevMro(ClassTable[c].parent), c)

\* issubclass(c, d)
IsSubclass(c, d) == \E i \in DOMAIN Mro(c) : Mro(c)[i] = d

\* the name __init_subclass__ stores in cls._config_name
ConfigName(c) == Lower(c)

\* vars(c): the public non-callable entries, then what __init_subclass__ stored
ClassVars(c) ==
    ClassTable[c].attrs
    \o << <<"_config_name", StrV(ConfigName(c))>> >>
    \o (IF c = "ConfigBase" \/ ClassTable[c].parent = "ConfigBase"
        THEN << <<"_registry", DictV(<< >>)>> >>
        ELSE << >>)

\* getattr(c, name): the first class of the MRO that has the attribute
HasClassAttr(c, name) == \E i \in DOMAIN Mro(c) : Has(ClassVars(Mro(c)[i]), name)

ClassGetAttr(c, name) ==
    LET m == Mro(c)
        i == CHOOSE j \in DOMAIN m :
                /\ Has(ClassVars(m[j]), name)
                /\ \A h \in 1..(j - 1) : ~Has(ClassVars(m[h]), name)
    IN Get(ClassVars(m[i]), name)

\* dict.update: the entries of src written into dst in order
RECURSIVE PutAll(_, _)
PutAll(dst, src) ==
    IF src = << >> THEN dst
    ELSE PutAll(Put(dst, src[1][1], src[1][2]), Tail(src))

\* gather_defaults(cls): base first, so that a child overrides
RECURSIVE GatherOver(_, _)
GatherOver(bases, defaults) ==
    IF bases = << >> THEN defaults
    ELSE GatherOver(Tail(bases),
                    PutAll(defaults,
                           SelectSeq(ClassVars(bases[1]),
                                     LAMBDA e : e[1] \notin {"_config_name", "_registry"})))

\* (variant of gather_defaults that walks the MRO most-derived class first, so
\* that an ancestor overrides)
gather_defaults_derived_first(c) == GatherOver(Mro(c), << >>)

gather_defaults(c) == GatherOver(RevMro(c), << >>)

\* self.__annotations__: an instance finds the __annotations__ of the first
\* class of its MRO whose body has annotations
SelfAnnotations(c) ==
    LET m == Mro(c)
        i == CHOOSE j \in DOMAIN m :
                /\ ClassTable[m[j]].ann # << >>
                /\ \A h \in 1..(j - 1) : ClassTable[m[h]].ann = << >>
    IN ClassTable[m[i]].ann

\* typing.get_type_hints(cls): the annotations of the whole MRO, base first
RECURSIVE HintsOver(_, _)
HintsOver(bases, hints) ==
    IF bases = << >> THEN hints
    ELSE HintsOver(Tail(bases), PutAll(hints, ClassTable[bases[1]].ann))

get_type_hints(c) == HintsOver(RevMro(c), << >>)

\* the defaults the builder collects with dir()/getattr: every attribute whose
\* name does not start with "__" and whose value is not callable, private
\* ones included.  Only membership and lookup of this dict are observed.
BuilderDefaults(c) ==
    LET pub == gather_defaults(c)
    IN << <<"_config_name", ClassGetAttr(c, "_config_name")>>,
          <<"_registry", ClassGetAttr(c, "_registry")>> >>
       \o [i \in DOMAIN pub |-> <<pub[i][1], ClassGetAttr(c, pub[i][1])>>]

(***************************************************************************)
(* Variant registry                                                        *)
(***************************************************************************)
\* the class whose _registry dict an attribute lookup on c reaches
RegOwner(reg, c) ==
    LET m == Mro(c)
        i == CHOOSE j \in DOMAIN m :
                /\ m[j] \in DOMAIN reg
                /\ \A h \in 1..(j - 1) : m[h] \notin DOMAIN reg
    IN m[i]

\* (variant of __init_subclass__ that keeps an entry already registered)
init_subclass_keep_first(reg, c) ==
    LET parent == ClassTable[c].parent
        cls_name == Lower(c)
    IN IF parent = "ConfigBase"
       THEN (c :> << >>) @@ reg
       ELSE IF Has(reg[RegOwner(reg, parent)], cls_name) THEN reg
       ELSE [reg EXCEPT ![RegOwner(reg, parent)] = Put(@, cls_name, c)]

\* ConfigBase.__init_subclass__
init_subclass(reg, c) ==
    LET parent == ClassTable[c].parent
        cls_name == Lower(c)
    IN IF parent = "ConfigBase"
       THEN (c :> << >>) @@ reg
       ELSE [reg EXCEPT ![RegOwner(reg, parent)] = Put(@, cls_name, c)]

RECURSIVE DeclareAll(_, _)
DeclareAll(reg, decls) ==
    IF decls = << >> THEN reg
    ELSE DeclareAll(init_subclass(reg, decls[1]), Tail(decls))

\* the ValueError of _get_subclass_by_name: the name tried, then list(cls._registry.keys())
UnknownSubclass(n, r) ==
    Exc("ValueError", "UnknownSubclass", <<n>> \o [i \in DOMAIN r |-> r[i][1]])

\* (variant of _get_subclass_by_name that forgets config_name.lower())
get_subclass_by_name_case_sensitive(reg, c, config_name) ==
    IF Falsy(config_name) THEN [exc |-> NoExc, cls |-> c]
    ELSE IF config_name.k # "str"
    THEN [exc |-> Exc("AttributeError", "lower", << >>), cls |-> c]
    ELSE LET n == config_name.s
             r == reg[RegOwner(reg, c)]
         IN IF n = ConfigName(c) THEN [exc |-> NoExc, cls |-> c]
            ELSE IF Has(r, n) THEN [exc |-> NoExc, cls |-> Get(r, n)]
            ELSE [exc |-> UnknownSubclass(n, r), cls |-> c]

\* (variant of _get_subclass_by_name that looks in the registry only)
get_subclass_by_name_registry_only(reg, c, config_name) ==
    IF Falsy(config_name) THEN [exc |-> NoExc, cls |-> c]
    ELSE IF config_name.k # "str"
    THEN [exc |-> Exc("AttributeError", "lower", << >>), cls |-> c]
    ELSE LET n == Lower(config_name.s)
             r == reg[RegOwner(reg, c)]
         IN IF Has(r, n) THEN [exc |-> NoExc, cls |-> Get(r, n)]
            ELSE [exc |-> UnknownSubclass(n, r), cls |-> c]

\* ConfigBase._get_subclass_by_name
get_subclass_by_name(reg, c, config_name) ==
    IF Falsy(config_name) THEN [exc |-> NoExc, cls |-> c]
    ELSE IF config_name.k # "str"
    THEN [exc |-> Exc("AttributeError", "lower", << >>), cls |-> c]
    ELSE LET n == Lower(config_name.s)
             r == reg[RegOwner(reg, c)]
         IN IF n = ConfigName(c) THEN [exc |-> NoExc, cls |-> c]
            ELSE IF Has(r, n) THEN [exc |-> NoExc, cls |-> Get(r, n)]
            ELSE [exc |-> UnknownSubclass(n, r), cls |-> c]

(***************************************************************************)
(* Heap objects                                                            *)
(***************************************************************************)
InstObj(c, attrs) == [kind |-> "inst", cls |-> c, attrs |-> attrs]

ListObj(items) == [kind |-> "list", items |-> items]

\* isinstance(v, c) for a ConfigBase subclass c
IsInstance(h, v, c) ==
    /\ v.k = "ref"
    /\ v.r \in DOMAIN h
    /\ h[v.r].kind = "inst"
    /\ IsSubclass(h[v.r].cls, c)

IsList(h, v) == v.k = "ref" /\ v.r \in DOMAIN h /\ h[v.r].kind = "list"

(***************************************************************************)
(* The validation adapter (pydantic TypeAdapter, lax mode) on the scalar   *)
(* types of the model                                                      *)
(***************************************************************************)
\* the number a string spells, None when it spells none
StrAsNumber(s) ==
    CASE s = "8" -> IntV(8)
      [] s = "2" -> IntV(2)
      [] s = "0.005" -> FloatV(5)
      [] s = "0.1" -> FloatV(100)
      [] OTHER -> NoneV

Invalid == [ok |-> FALSE, v |-> NoneV]

Valid(v) == [ok |-> TRUE, v |-> v]

AsInt(v) ==
    CASE v.k = "int" -> Valid(v)
      [] v.k = "float" -> IF v.m % 1000 = 0 THEN Valid(IntV(v.m \div 1000)) ELSE Invalid
      [] v.k = "str" -> IF StrAsNumber(v.s).k = "int" THEN Valid(StrAsNumber(v.s)) ELSE Invalid
      [] OTHER -> Invalid

AsFloat(v) ==
    CASE v.k = "float" -> Valid(v)
      [] v.k = "int" -> Valid(FloatV(v.n * 1000))
      [] v.k = "str" ->
            LET x == StrAsNumber(v.s)
            IN IF x.k = "int" THEN Valid(FloatV(x.n * 1000))
               ELSE IF x.k = "float" THEN Valid(x)
               ELSE Invalid
      [] OTHER -> Invalid

\* adapter.validate_python(value)
validate_python(tp, v) ==
    CASE tp.t = "str" -> IF v.k = "str" THEN Valid(v) ELSE Invalid
      [] tp.t = "int" -> AsInt(v)
      [] tp.t = "float" -> AsFloat(v)
      [] tp.t = "optint" -> IF v.k = "none" THEN Valid(v) ELSE AsInt(v)
      [] tp.t = "int_or_list" -> AsInt(v)
      [] OTHER -> Invalid

\* adapter.validate_json(text): the text must be a JSON document; of the
\* strings of the model only the numbers are
validate_json(tp, text) ==
    LET doc == StrAsNumber(text)
    IN IF doc.k = "none" THEN Invalid
       ELSE IF tp.t = "str" THEN Invalid
       ELSE validate_python(tp, doc)

(***************************************************************************)
(* config.parse_value_to_type                                              *)
(***************************************************************************)
\* the index of the first element of a list that is not an instance of c, or 0
FirstNonInstance(h, items, c) ==
    IF \A i \in DOMAIN items : IsInstance(h, items[i], c) THEN 0
    ELSE CHOOSE i \in DOMAIN items :
            /\ ~IsInstance(h, items[i], c)
            /\ \A j \in 1..(i - 1) : IsInstance(h, items[j], c)

\* the result carries fresh = TRUE when the value returned is a list the
\* function has just made (items holds its elements)
Parsed(v) == [exc |-> NoExc, v |-> v, fresh |-> FALSE, items |-> << >>]

ParsedFresh(items) == [exc |-> NoExc, v |-> NoneV, fresh |-> TRUE, items |-> items]

ParseFailed(e) == [exc |-> e, v |-> NoneV, fresh |-> FALSE, items |-> << >>]

\* the elements iterating over a value yields: the items of a list; the
\* characters of a str and the keys of a dict are strings, of which only
\* their number and their not being instances matter here
Elements(h, value) ==
    IF IsList(h, value) THEN h[value.r].items
    ELSE IF Falsy(value) THEN << >>
    ELSE << StrV("?") >>

\* the "[i]" suffix of an element's path
IndexSeg(i) == CASE i = 1 -> "[0]" [] i = 2 -> "[1]" [] i = 3 -> "[2]" [] OTHER -> "[n]"

parse_value_to_type(h, value, field_type, strict, path) ==
    IF field_type.t = "listcfg"
    THEN IF ~IsList(h, value) /\ value.k \notin {"str", "dict"}
         THEN ParseFailed(Exc("TypeError", "NotIterable", path))
         ELSE LET items == Elements(h, value)
                  bad == FirstNonInstance(h, items, field_type.c)
              IN IF IsList(h, value) /\ bad = 0 THEN Parsed(value)
                 ELSE IF bad # 0 /\ strict
                 THEN ParseFailed(Exc("TypeError", "NotInstance", Append(path, IndexSeg(bad))))
                 ELSE ParsedFresh(items)
    ELSE IF field_type.t = "cfg"
    THEN IF IsInstance(h, value, field_type.c) THEN Parsed(value)
         ELSE IF strict THEN ParseFailed(Exc("TypeError", "NotInstance", path))
         ELSE Parsed(value)
    ELSE LET js == IF value.k = "str" THEN validate_json(field_type, value.s) ELSE Invalid
             py == validate_python(field_type, value)
         IN IF js.ok THEN Parsed(js.v)
            ELSE IF py.ok THEN Parsed(py.v)
            ELSE IF strict THEN ParseFailed(Exc("TypeError", "Invalid", path))
            ELSE Parsed(value)

(***************************************************************************)
(* ConfigBase.__setattr__, __new__ and __init__                            *)
(***************************************************************************)
Store(h, ref, name, v) == [h EXCEPT ![ref].attrs = Put(@, name, v)]

\* the end of __setattr__: the parsed value is stored, or the exception leaves
\* the object as it was
StoreParsed(h, ref, name, p) ==
    IF p.exc.type # "none" THEN [exc |-> p.exc, heap |-> h]
    ELSE IF p.fresh
    THEN [exc |-> NoExc,
          heap |-> Store(Append(h, ListObj(p.items)), ref, name, RefV(Len(h) + 1))]
    ELSE [exc |-> NoExc, heap |-> Store(h, ref, name, p.v)]

\* ConfigBase.__setattr__(self, name, value)
setattr(h, ref, name, value) ==
    IF Has(SelfAnnotations(h[ref].cls), name)
    THEN StoreParsed(h, ref, name,
                     parse_value_to_type(h, value, Get(SelfAnnotations(h[ref].cls), name),
                                         TRUE, <<h[ref].cls, name>>))
    ELSE [exc |-> NoExc, heap |-> Store(h, ref, name, value)]

\* for k, v in pairs.items(): setattr(self, k, v)
RECURSIVE SetAll(_, _, _)

\* the loop goes on after the assignment whose outcome is r, or ends with its exception
SetRest(r, ref, pairs) ==
    IF r.exc.type # "none" THEN r ELSE SetAll(r.heap, ref, Tail(pairs))

SetAll(h, ref, pairs) ==
    IF pairs = << >> THEN [exc |-> NoExc, heap |-> h]
    ELSE SetRest(setattr(h, ref, pairs[1][1], pairs[1][2]), ref, pairs)

\* the first annotated name of `ann` that has neither a default nor a keyword, or ""
FirstMissing(ann, all_defaults, kwargs) ==
    LET miss(i) == ~Has(all_defaults, ann[i][1]) /\ ~Has(kwargs, ann[i][1])
    IN IF \A i \in DOMAIN ann : ~miss(i) THEN ""
       ELSE ann[CHOOSE i \in DOMAIN ann : miss(i) /\ \A j \in 1..(i - 1) : ~miss(j)][1]

Failed(h, e) == [exc |-> e, heap |-> h, ref |-> 0]

\* the end of a construction: the object at ref in the heap of the last loop of
\* assignments s, or the exception of s and the heap as it was before
Made(h0, ref, s) ==
    IF s.exc.type # "none" THEN Failed(h0, s.exc)
    ELSE [exc |-> NoExc, heap |-> s.heap, ref |-> ref]

\* __init__, second loop: the keyword arguments, after the defaults were set (d)
InitKwargs(h0, ref, kwargs, d) ==
    IF d.exc.type # "none" THEN Failed(h0, d.exc)
    ELSE Made(h0, ref, SetAll(d.heap, ref, kwargs))

\* ConfigBase.__init__(self, **kwargs) on the object at ref
init(h0, h, ref, kwargs) ==
    LET missing == FirstMissing(SelfAnnotations(h[ref].cls),
                                gather_defaults(h[ref].cls), kwargs)
    IN IF missing # ""
       THEN Failed(h0, Exc("ValueError", "MissingRequired", <<missing>>))
       ELSE InitKwargs(h0, ref, kwargs, SetAll(h, ref, gather_defaults(h[ref].cls)))

\* __new__ once the class is resolved (sub): the object is made, and __init__
\* runs when it is an instance of c
NewOf(h, c, kwargs, sub) ==
    IF sub.exc.type # "none" THEN Failed(h, sub.exc)
    ELSE IF IsSubclass(sub.cls, c)
    THEN init(h, Append(h, InstObj(sub.cls, << >>)), Len(h) + 1, kwargs)
    ELSE [exc |-> NoExc, heap |-> Append(h, InstObj(sub.cls, << >>)), ref |-> Len(h) + 1]

\* cls(**kwargs): ConfigBase.__new__ picks the class, and __init__ runs when
\* the object made is an instance of cls
new(h, reg, c, kwargs) ==
    LET config_name == IF Has(kwargs, "_config_name") THEN Get(kwargs, "_config_name") ELSE NoneV
    IN NewOf(h, c, kwargs,
             IF Falsy(config_name) THEN [exc |-> NoExc, cls |-> c]
             ELSE get_subclass_by_name(reg, c, config_name))

(***************************************************************************)
(* from_dict: flat -> nested                                               *)
(***************************************************************************)
\* update_nested_dict_from_flat(nested_dict, key, value): the dict after the
\* in-place update, or the exception raised
RECURSIVE update_nested_dict_from_flat(_, _, _)

\* the recursive call has returned (sub): its dict is stored under k
NestedUnder(d2, k, sub) ==
    IF sub.exc.type # "none" THEN [exc |-> sub.exc, d |-> d2]
    ELSE [exc |-> NoExc, d |-> Put(d2, k, DictV(sub.d))]

\* (variant of the descent that starts from an empty dict under k)
Descend_fresh(d2, key, value) ==
    NestedUnder(d2, Head(key),
                update_nested_dict_from_flat(<< >>, Tail(key), value))

\* the descent into nested_dict[k], the entry being made when it is missing
Descend(d2, key, value) ==
    NestedUnder(d2, Head(key),
                update_nested_dict_from_flat(Get(d2, Head(key)).d, Tail(key), value))

\* after a string under k was promoted to {"_name": string} (d1)
Promoted(d1, key, value) ==
    IF Has(d1, Head(key)) /\ Get(d1, Head(key)).k # "dict"
    THEN [exc |-> Exc("ValueError", "Collision", key), d |-> d1]
    ELSE Descend(IF Has(d1, Head(key)) THEN d1 ELSE Put(d1, Head(key), DictV(<< >>)),
                 key, value)

update_nested_dict_from_flat(nested_dict, key, value) ==
    IF Len(key) = 1
    THEN [exc |-> NoExc, d |-> Put(nested_dict, key[1], value)]
    ELSE Promoted(IF Has(nested_dict, Head(key)) /\ Get(nested_dict, Head(key)).k = "str"
                  THEN Put(nested_dict, Head(key),
                           DictV(<< <<"_name", Get(nested_dict, Head(key))>> >>))
                  ELSE nested_dict,
                  key, value)

\* flat_dict_to_nested(flat_dict): the entries are applied in the order of
\* the flat dict
RECURSIVE NestOver(_, _)

\* the loop goes on after the update whose outcome is r, or ends with its exception
NestRest(r, entries) ==
    IF r.exc.type # "none" THEN r ELSE NestOver(Tail(entries), r.d)

NestOver(entries, nested_dict) ==
    IF entries = << >> THEN [exc |-> NoExc, d |-> nested_dict]
    ELSE NestRest(update_nested_dict_from_flat(nested_dict, entries[1][1], entries[1][2]),
                  entries)

flat_dict_to_nested(flat_dict) == NestOver(flat_dict, << >>)

(***************************************************************************)
(* The normaliser on dict objects.  A flat mapping may hold a dict as a    *)
(* value; nested_dict[keys[0]] = value then stores that very object, and a *)
(* later descent updates it in place.  Here a dict is an object of a store *)
(* (a sequence of dicts), and a value that is a dict is a reference MapV   *)
(* into the store.                                                         *)
(***************************************************************************)
MapV(r) == [k |-> "map", r |-> r]

\* nested_dict[k] = <a new dict with the given content>
NewMap(store, ref, k, content) ==
    Append([store EXCEPT ![ref] = Put(@, k, MapV(Len(store) + 1))], content)

\* the store after the promotion of a string under k, or the creation of a
\* missing entry k
Prepared(store, ref, key) ==
    IF Has(store[ref], Head(key)) /\ Get(store[ref], Head(key)).k = "str"
    THEN NewMap(store, ref, Head(key), << <<"_name", Get(store[ref], Head(key))>> >>)
    ELSE IF ~Has(store[ref], Head(key))
    THEN NewMap(store, ref, Head(key), << >>)
    ELSE store

RECURSIVE UpdateInPlace(_, _, _, _)

\* the collision check, then the recursive call on the dict under k
DescendInPlace(s1, ref, key, value) ==
    IF Get(s1[ref], Head(key)).k # "map"
    THEN [exc |-> Exc("ValueError", "Collision", key), store |-> s1]
    ELSE UpdateInPlace(s1, Get(s1[ref], Head(key)).r, Tail(key), value)

\* update_nested_dict_from_flat(nested_dict, key, value) on the dict object ref
UpdateInPlace(store, ref, key, value) ==
    IF Len(key) = 1
    THEN [exc |-> NoExc, store |-> [store EXCEPT ![ref] = Put(@, key[1], value)]]
    ELSE DescendInPlace(Prepared(store, ref, key), ref, key, value)

RECURSIVE NestOverInPlace(_, _, _)

\* the loop goes on after the update whose outcome is r, or ends with its exception
NestRestInPlace(r, ref, entries) ==
    IF r.exc.type # "none" THEN r ELSE NestOverInPlace(r.store, ref, Tail(entries))

NestOverInPlace(store, ref, entries) ==
    IF entries = << >> THEN [exc |-> NoExc, store |-> store]
    ELSE NestRestInPlace(UpdateInPlace(store, ref, entries[1][1], entries[1][2]),
                         ref, entries)

\* flat_dict_to_nested(flat_dict): nested_dict = {} is the new object
\* Len(store) + 1, returned when no update raises
flat_dict_to_nested_in_place(store, flat_dict) ==
    NestOverInPlace(Append(store, << >>), Len(store) + 1, flat_dict)

\* the nested mapping the dict object ref stands for
RECURSIVE Deref(_, _)
Deref(store, ref) ==
    [i \in DOMAIN store[ref] |->
        << store[ref][i][1],
           IF store[ref][i][2].k = "map"
           THEN DictV(Deref(store, store[ref][i][2].r))
           ELSE store[ref][i][2] >>]

\* from_dict.parse_value_to_type(raw_val, expected_type, strict, path): the
\* adapter is given the value as it is; warned tells whether warnings.warn ran
from_dict_parse_value_to_type(h, raw_val, expected_type, strict, path) ==
    LET ok == IF expected_type.t = "cfg" THEN IsInstance(h, raw_val, expected_type.c)
              ELSE IF expected_type.t = "listcfg"
              THEN IsList(h, raw_val)
                   /\ FirstNonInstance(h, h[raw_val.r].items, expected_type.c) = 0
              ELSE validate_python(expected_type, raw_val).ok
        v == IF expected_type.t \in {"cfg", "listcfg"} THEN raw_val
             ELSE validate_python(expected_type, raw_val).v
    IN IF ok THEN [exc |-> NoExc, v |-> v, warned |-> FALSE]
       ELSE IF strict
       THEN [exc |-> Exc("TypeError", "Invalid", path), v |-> NoneV, warned |-> FALSE]
       ELSE [exc |-> NoExc, v |-> raw_val, warned |-> TRUE]

\* join_path(base, field_name)
join_path(base, field_name) == Append(base, field_name)

(***************************************************************************)
(* from_dict: the nested builder                                           *)
(***************************************************************************)
\* from_dict.is_configbase_type: a ConfigBase subclass (a List[...] is not)
is_configbase_type(tp) == tp.t = "cfg"

\* extract_configbase_member
extract_configbase_member(tp) == tp.c

\* hasattr(instance, name)
HasAttr(h, ref, name) == Has(h[ref].attrs, name) \/ HasClassAttr(h[ref].cls, name)

\* (variant of the key check of step 3 that lets every key through)
FirstUnknown_unchecked(d, recognized) == ""

\* the first key of the mapping that is not recognised, or ""
FirstUnknown(d, recognized) ==
    LET bad(i) == d[i][1] \notin recognized
    IN IF \A i \in DOMAIN d : ~bad(i) THEN ""
       ELSE d[CHOOSE i \in DOMAIN d : bad(i) /\ \A j \in 1..(i - 1) : ~bad(j)][1]

RECURSIVE cfg_from_nested_dict(_, _, _, _, _, _)
RECURSIVE BuildFields(_, _, _, _, _, _, _, _, _)

\* the loop of step 4 goes on with the instance made for field i (made), or
\* ends with the exception its construction raised
FieldMade(made, h, reg, actual_cls, hints, i, d, strict, path, init_values) ==
    IF made.exc.type # "none"
    THEN [exc |-> made.exc, heap |-> h, init_values |-> init_values]
    ELSE BuildFields(made.heap, reg, actual_cls, hints, i + 1, d, strict, path,
                     Put(init_values, hints[i][1], RefV(made.ref)))

\* step 4 of cfg_from_nested_dict: the loop over type_hints, from field i on
BuildFields(h, reg, actual_cls, hints, i, d, strict, path, init_values) ==
    IF i > Len(hints) THEN [exc |-> NoExc, heap |-> h, init_values |-> init_values]
    ELSE
    LET field_name == hints[i][1]
        field_type == hints[i][2]
        full_path == join_path(path, field_name)
        raw_val == Get(d, field_name)
        stop(e) == [exc |-> e, heap |-> h, init_values |-> init_values]
    IN IF Has(d, field_name)
       THEN IF is_configbase_type(field_type)
            THEN IF raw_val.k \in {"str", "dict"}
                 THEN FieldMade(cfg_from_nested_dict(
                                    h, reg, extract_configbase_member(field_type),
                                    IF raw_val.k = "str"
                                    THEN DictV(<< <<"_name", raw_val>> >>)
                                    ELSE raw_val,
                                    strict, full_path),
                                h, reg, actual_cls, hints, i, d, strict, path, init_values)
                 ELSE stop(Exc("TypeError", "InvalidValueType", full_path))
            ELSE BuildFields(h, reg, actual_cls, hints, i + 1, d, strict, path, init_values)
       ELSE IF Has(BuilderDefaults(actual_cls), field_name)
       THEN BuildFields(h, reg, actual_cls, hints, i + 1, d, strict, path,
                        Put(init_values, field_name,
                            Get(BuilderDefaults(actual_cls), field_name)))
       ELSE IF strict
       THEN stop(Exc("ValueError", "MissingRequired", <<field_name>>))
       ELSE IF is_configbase_type(field_type)
       THEN FieldMade(new(h, reg, extract_configbase_member(field_type), << >>),
                      h, reg, actual_cls, hints, i, d, strict, path, init_values)
       ELSE BuildFields(h, reg, actual_cls, hints, i + 1, d, strict, path,
                        Put(init_values, field_name, NoneV))

\* step 6, second loop: the defaults the instance does not have yet, after the
\* collected values were assigned (s1)
SetRemaining(h0, actual_cls, ref, s1) ==
    IF s1.exc.type # "none" THEN Failed(h0, s1.exc)
    ELSE Made(h0, ref,
              SetAll(s1.heap, ref,
                     SelectSeq(BuilderDefaults(actual_cls),
                               LAMBDA e : ~HasAttr(s1.heap, ref, e[1]))))

\* steps 5 and 6: the supplied values no branch of step 4 has consumed join the
\* collected ones (f), the instance is made without __init__ and they are assigned
Instantiate(h0, actual_cls, d, f) ==
    IF f.exc.type # "none" THEN Failed(h0, f.exc)
    ELSE SetRemaining(h0, actual_cls, Len(f.heap) + 1,
                      SetAll(Append(f.heap, InstObj(actual_cls, << >>)), Len(f.heap) + 1,
                             f.init_values
                             \o SelectSeq(d, LAMBDA e : /\ ~Has(f.init_values, e[1])
                                                        /\ e[1] # "_name")))

\* steps 2 to 4, once the variant is resolved (sub)
BuildResolved(h, reg, sub, d, strict, path) ==
    IF sub.exc.type # "none" THEN Failed(h, sub.exc)
    ELSE LET unknown == FirstUnknown(d, KeysOf(get_type_hints(sub.cls)) \cup {"_name"})
         IN IF unknown # ""
            THEN Failed(h, Exc("ValueError", "UnknownKey", join_path(path, unknown)))
            ELSE Instantiate(h, sub.cls, d,
                             BuildFields(h, reg, sub.cls, get_type_hints(sub.cls), 1, d,
                                         strict, path, << >>))

\* the mapping a nested argument stands for: a string names the variant
AsEntries(nested) == IF nested.k = "str" THEN << <<"_name", nested>> >> ELSE nested.d

cfg_from_nested_dict(h, reg, config_cls, nested, strict, path) ==
    IF nested.k \notin {"str", "dict"}
    THEN Failed(h, Exc("AttributeError", "get", path))
    ELSE BuildResolved(h, reg,
                       get_subclass_by_name(reg, config_cls,
                                            IF Has(AsEntries(nested), "_name")
                                            THEN Get(AsEntries(nested), "_name") ELSE NoneV),
                       AsEntries(nested), strict, path)

\* cfg_from_flat_dict once the flat mapping is nested
BuildNested(h, reg, config_cls, nested, strict) ==
    IF nested.exc.type # "none" THEN Failed(h, nested.exc)
    ELSE cfg_from_nested_dict(h, reg, config_cls, DictV(nested.d), strict, << >>)

\* cfg_from_flat_dict(config_cls, flat_dict, strict)
cfg_from_flat_dict(h, reg, config_cls, flat_dict, strict) ==
    BuildNested(h, reg, config_cls, flat_dict_to_nested(flat_dict), strict)

(***************************************************************************)
(* ConfigBase.to_dict                                                      *)
(***************************************************************************)
\* Bunch(init): 'None' and 'none' become None, a dict becomes a Bunch
RECURSIVE Bunch(_)
Bunch(d) ==
    [i \in DOMAIN d |->
        <<d[i][1],
          IF d[i][2].k = "dict" THEN DictV(Bunch(d[i][2].d))
          ELSE IF d[i][2].k = "str" /\ d[i][2].s \in {"None", "none"} THEN NoneV
          ELSE d[i][2]>>]

RECURSIVE to_dict(_, _, _, _)
RECURSIVE ToDictOver(_, _, _, _, _)

\* the loop of to_dict over vars(self), from attribute i on
ToDictOver(h, attrs, i, flatten, parent_key) ==
    IF i > Len(attrs) THEN << >>
    ELSE
    LET attr_name == attrs[i][1]
        value == attrs[i][2]
        later == ToDictOver(h, attrs, i + 1, flatten, parent_key)
        here ==
            IF value.k = "ref" /\ h[value.r].kind = "inst"
            THEN IF flatten
                 THEN LET sub_dict == to_dict(h, value.r, TRUE, << >>)
                      IN [j \in DOMAIN sub_dict |->
                            <<parent_key \o <<attr_name>> \o sub_dict[j][1], sub_dict[j][2]>>]
                 ELSE << <<attr_name, DictV(to_dict(h, value.r, FALSE, << >>))>> >>
            ELSE IF flatten
                 THEN << <<parent_key \o <<attr_name>>, value>> >>
                 ELSE << <<attr_name, value>> >>
    IN PutAll(here, later)

to_dict(h, ref, flatten, parent_key) ==
    Bunch(ToDictOver(h, h[ref].attrs, 1, flatten, parent_key))

(***************************************************************************)
(* make_config (from_commandline)                                          *)
(***************************************************************************)
\* str(v) on the override values the model uses
Str(v) ==
    CASE v.k = "str" -> v
      [] v.k = "none" -> StrV("None")
      [] v.k = "int" /\ v.n = 8 -> StrV("8")
      [] v.k = "int" /\ v.n = 2 -> StrV("2")
      [] v.k = "float" /\ v.m = 5 -> StrV("0.005")
      [] OTHER -> StrV("bad")

\* make_config_from_flat_dict(config_cls, flat_dict, strict): the flat
\* builder under the name from_commandline imports
make_config_from_flat_dict(h, reg, config_cls, flat_dict, strict) ==
    cfg_from_flat_dict(h, reg, config_cls, flat_dict, strict)

\* current_dict.update({k: str(v) for k, v in overrides.items()})
Overridden(current_dict, overrides) ==
    PutAll(current_dict,
           [i \in DOMAIN overrides |-> << <<overrides[i][1]>>, Str(overrides[i][2]) >>])

\* make_config(source, **overrides) for a source that is an instance (a
\* source that is a class is the direct instantiation source(**overrides))
make_config(h, reg, source, overrides) ==
    IF overrides = << >>
    THEN [exc |-> NoExc, heap |-> h, ref |-> source]
    ELSE make_config_from_flat_dict(h, reg, h[source].cls,
                                    Overridden(to_dict(h, source, TRUE, << >>), overrides),
                                    FALSE)

(***************************************************************************)
(* The state machine                                                       *)
(*                                                                         *)
(* heap      the objects: config instances and lists, by reference         *)
(* registry  owner class -> (variant name -> class), the _registry dicts   *)
(* declared  the class statements that have run, in order                  *)
(* live      the instances the caller holds, with the call that made each  *)
(* res       the last call: its arguments and its outcome                  *)
(***************************************************************************)
\* the most entries a mapping or keyword list given to a call has
MaxEntries == 2

\* the most instances the caller holds at once
MaxLive == 2

\* the objects the class bodies create: Config.scheduler and NetConfig.layers
ClassHeap ==
    Append(new(new(new(<< >>, DeclareAll(("ConfigBase" :> << >>), Decls),
                       "SchedulerConfig", << >>).heap,
                   DeclareAll(("ConfigBase" :> << >>), Decls), "LayerConfig",
                   << <<"type", StrV("conv")>>, <<"out_features", IntV(32)>> >>).heap,
               DeclareAll(("ConfigBase" :> << >>), Decls), "LayerConfig",
               << <<"type", StrV("linear")>>, <<"out_features", IntV(10)>> >>).heap,
           ListObj(<< RefV(ConvLayerDefault), RefV(LinearLayerDefault) >>))

Unset == [k |-> "unset"]

NoRes ==
    [op |-> "none", cls |-> "", arg |-> NoneV, strict |-> FALSE, exc |-> NoExc,
     ref |-> 0, obj |-> 0, name |-> "", val |-> NoneV, old |-> Unset, out |-> << >>,
     warned |-> FALSE]

Init ==
    /\ heap = ClassHeap
    /\ registry = DeclareAll(("ConfigBase" :> << >>), Decls)
    /\ declared = Decls
    /\ live = << >>
    /\ res = NoRes

\* ---- the arguments the calls are tried with ----

\* the sequences of at most n entries of the pool, no key twice
RECURSIVE EntrySeqs(_, _)
EntrySeqs(pool, n) ==
    IF n = 0 THEN { << >> }
    ELSE LET S == EntrySeqs(pool, n - 1)
         IN S \cup UNION { { Append(q, e) : e \in { x \in pool : x[1] \notin KeysOf(q) } } : q \in S }

RootOf(c) == RevMro(c)[2]

NestedPool(root) ==
    CASE root = "ModelConfig" ->
            { <<"_name", StrV("dit")>>, <<"_name", StrV("DiT")>>, <<"_name", StrV("unet")>>,
              <<"_name", StrV("compositemodel")>>, <<"_name", StrV("adamw")>>,
              <<"version", StrV("0.1.2")>>, <<"version", IntV(3)>>,
              <<"layers", IntV(8)>>, <<"layers", StrV("8")>>, <<"layers", StrV("x")>>,
              <<"conv", StrV("Success")>>,
              <<"num_heads", StrV("2")>>,
              <<"submodel", StrV("unet")>>,
              <<"submodel", DictV(<< <<"_name", StrV("dit")>>, <<"layers", IntV(8)>> >>)>>,
              <<"submodel", DictV(<< <<"nope", IntV(1)>> >>)>>,
              <<"submodel", NoneV>>,
              <<"nope", IntV(1)>> }
      [] root = "OptimizerConfig" ->
            { <<"_name", StrV("adamw")>>, <<"_name", StrV("AdamW")>>,
              <<"lr", StrV("0.005")>>, <<"lr", FloatV(5)>>, <<"lr", StrV("bad")>>,
              <<"weight_decay", StrV("0.1")>>, <<"weight_decay", StrV("bad")>>,
              <<"nope", IntV(1)>> }
      [] root = "Config" ->
            { <<"model", StrV("dit")>>,
              <<"model", DictV(<< <<"_name", StrV("dit")>>, <<"layers", StrV("8")>> >>)>>,
              <<"model", DictV(<< <<"nope", IntV(1)>> >>)>>,
              <<"model", DictV(<< <<"version", IntV(3)>> >>)>>,
              <<"model", NoneV>>,
              <<"opt", DictV(<< >>)>>,
              <<"opt", DictV(<< <<"_name", StrV("adamw")>>, <<"lr", StrV("0.005")>> >>)>>,
              <<"opt", DictV(<< <<"nope", IntV(1)>> >>)>>,
              <<"scheduler", DictV(<< <<"patience", IntV(5)>> >>)>>,
              <<"scheduler", RefV(SchedulerDefault)>>,
              <<"nope", IntV(1)>> }
      [] root = "TrainConfig" ->
            { <<"_name", StrV("finetune")>>,
              <<"steps", IntV(8)>>, <<"steps", StrV("8")>>, <<"steps", StrV("x")>>,
              <<"seed", IntV(2)>>, <<"seed", StrV("x")>>,
              <<"nope", IntV(1)>> }
      [] root = "Pipeline" ->
            { <<"_name", StrV("bigpipeline")>>,
              <<"backbone", StrV("unet")>>, <<"backbone", StrV("dit")>>,
              <<"backbone", DictV(<< <<"_name", StrV("unet")>>, <<"conv", StrV("Success")>> >>)>>,
              <<"depth", IntV(2)>> }
      [] root = "LayerConfig" ->
            { <<"type", StrV("conv")>>, <<"type", IntV(3)>>,
              <<"out_features", IntV(32)>>, <<"out_features", StrV("x")>>,
              <<"out_features", NoneV>>,
              <<"nope", IntV(1)>> }
      [] root = "NetConfig" ->
            { <<"name", StrV("n")>>, <<"name", IntV(3)>>,
              <<"layers", RefV(LayersDefault)>>, <<"layers", StrV("x")>>,
              <<"nope", IntV(1)>> }
      [] OTHER -> { }

\* the dotted keys of a flat mapping
FlatPool(root) ==
    { << <<e[1]>>, e[2] >> : e \in { x \in NestedPool(root) : x[2].k # "dict" } }
    \cup
    (CASE root = "ModelConfig" ->
            { << <<"submodel", "_name">>, StrV("Unet") >>,
              << <<"submodel", "conv">>, StrV("Success") >>,
              << <<"version", "x">>, IntV(1) >> }
       [] root = "Config" ->
            { << <<"model">>, StrV("DIT") >>, << <<"model">>, StrV("NOT A MODEL") >>,
              << <<"model", "_name">>, StrV("dit") >>,
              << <<"model", "_name">>, StrV("compositemodel") >>,
              << <<"model", "layers">>, StrV("8") >>, << <<"model", "layers">>, IntV(8) >>,
              << <<"model", "version">>, StrV("0.1.2") >>,
              << <<"model", "params">>, StrV("x") >>,
              << <<"model", "submodel", "_name">>, StrV("Unet") >>,
              << <<"opt", "_name">>, StrV("adamw") >>,
              << <<"opt", "lr">>, StrV("0.005") >>,
              << <<"opt", "weight_decay">>, StrV("0.1") >> }
       [] OTHER -> { })

\* keyword arguments of a direct instantiation
KwPool(root) ==
    { e \in NestedPool(root) : e[1] # "_name" /\ e[2].k # "dict" }
    \cup
    (CASE root = "ModelConfig" ->
            { <<"_config_name", StrV("DiT")>>, <<"submodel", RefV(SchedulerDefault)>> }
       [] root = "NetConfig" -> { <<"layers", RefV(ConvLayerDefault)>> }
       [] OTHER -> { })

BuildClasses == Classes \ {"ConfigBase"}

Constructors == {"nested", "flat", "new"}

Constructed(op, c, arg, strict, r) ==
    /\ heap' = r.heap
    /\ live' = IF r.exc = NoExc THEN Append(live, [ref |-> r.ref, by |-> op]) ELSE live
    /\ res' = [NoRes EXCEPT !.op = op, !.cls = c, !.arg = arg, !.strict = strict,
                            !.exc = r.exc, !.ref = r.ref]
    /\ UNCHANGED <<registry, declared>>

\* cfg_from_nested_dict(c, nested, strict)
CfgFromNestedDict(c, nested, strict) ==
    Constructed("nested", c, nested, strict,
                   cfg_from_nested_dict(heap, registry, c, nested, strict, << >>))

\* cfg_from_flat_dict(c, flat, strict)
CfgFromFlatDict(c, flat, strict) ==
    Constructed("flat", c, DictV(flat), strict,
                   cfg_from_flat_dict(heap, registry, c, flat, strict))

\* c(**kwargs)
New(c, kwargs) ==
    Constructed("new", c, DictV(kwargs), TRUE, new(heap, registry, c, kwargs))

\* from_dict.parse_value_to_type(value, tp, strict, path="key"), called directly
ParseValue(value, tp, strict) ==
    /\ LET r == from_dict_parse_value_to_type(heap, value, tp, strict, <<"key">>)
       IN res' = [NoRes EXCEPT !.op = "parse", !.val = value, !.strict = strict,
                               !.exc = r.exc, !.out = << <<"type", tp>>, <<"value", r.v>> >>,
                               !.warned = r.warned]
    /\ UNCHANGED <<heap, registry, declared, live>>

\* the names a variant lookup is tried with
LookupNames ==
    { NoneV, StrV(""), StrV("dit"), StrV("DiT"), StrV("DIT"), StrV("unet"),
      StrV("adamw"), StrV("ModelConfig"), StrV("finetune"), StrV("NOT A MODEL") }

\* the lookup has run with outcome r
LookedUp(c, config_name, r) ==
    /\ res' = [NoRes EXCEPT !.op = "lookup", !.cls = c, !.val = config_name,
                            !.exc = r.exc, !.name = r.cls]
    /\ UNCHANGED <<heap, registry, declared, live>>

\* c._get_subclass_by_name(config_name), called directly
GetSubclassByName(c, config_name) ==
    LookedUp(c, config_name, get_subclass_by_name(registry, c, config_name))

\* the entries of the flat mappings the normaliser is tried with
NormPool ==
    { << <<"model">>, StrV("dit") >>, << <<"model">>, IntV(1) >>,
      << <<"model">>, NoneV >>, << <<"model">>, FloatV(5) >>,
      << <<"model", "_name">>, StrV("dit") >>,
      << <<"model", "layers">>, IntV(8) >>,
      << <<"model", "version">>, StrV("0.1.2") >>,
      << <<"model", "params", "depth">>, IntV(2) >>,
      << <<"model", "submodel">>, StrV("unet") >>,
      << <<"model", "submodel", "conv">>, StrV("Success") >>,
      << <<"opt">>, StrV("adamw") >>,
      << <<"opt", "lr">>, FloatV(5) >> }

\* the normalisation has run with outcome r
Normalized(flat, r) ==
    /\ res' = [NoRes EXCEPT !.op = "normalize", !.arg = DictV(flat), !.exc = r.exc,
                            !.out = IF r.exc = NoExc THEN r.d ELSE << >>]
    /\ UNCHANGED <<heap, registry, declared, live>>

\* flat_dict_to_nested(flat), called directly
FlatDictToNested(flat) == Normalized(flat, flat_dict_to_nested(flat))

\* the dicts the caller owns before a call: {"_name": "dit"},
\* {"_name": "dit", "p": {"a": 1}} and its inner {"a": 1}
CallerMaps ==
    << << <<"_name", StrV("dit")>> >>,
       << <<"_name", StrV("dit")>>, <<"p", MapV(3)>> >>,
       << <<"a", IntV(1)>> >> >>

\* the entries of the caller's flat mappings that hold those dicts
OwnedPool ==
    { << <<"model">>, MapV(1) >>, << <<"model">>, MapV(2) >>,
      << <<"model">>, StrV("dit") >>,
      << <<"model", "layers">>, IntV(8) >>,
      << <<"model", "_name">>, StrV("unet") >>,
      << <<"model", "p", "b">>, IntV(2) >>,
      << <<"model", "p">>, IntV(2) >>,
      << <<"opt", "lr">>, FloatV(5) >> }

\* the normalisation of the caller's mapping has run with outcome n
NormalizedOwned(flat, n) ==
    /\ res' = [NoRes EXCEPT !.op = "normalize_owned", !.arg = DictV(flat),
                            !.exc = n.exc, !.out = << <<"store", n.store>> >>]
    /\ UNCHANGED <<heap, registry, declared, live>>

\* flat_dict_to_nested(flat) on a mapping whose dict values the caller owns
FlatDictToNestedOwned(flat) ==
    NormalizedOwned(flat, flat_dict_to_nested_in_place(CallerMaps, flat))

\* the build from the normalised mapping (n) has run with outcome r
BuiltOwned(c, flat, strict, n, r) ==
    /\ heap' = IF n.exc = NoExc THEN r.heap ELSE heap
    /\ live' = IF n.exc = NoExc /\ r.exc = NoExc
               THEN Append(live, [ref |-> r.ref, by |-> "flat_owned"]) ELSE live
    /\ res' = [NoRes EXCEPT !.op = "flat_owned", !.cls = c, !.arg = DictV(flat),
                            !.strict = strict,
                            !.exc = IF n.exc = NoExc THEN r.exc ELSE n.exc,
                            !.ref = IF n.exc = NoExc THEN r.ref ELSE 0,
                            !.out = << <<"store", n.store>> >>]
    /\ UNCHANGED <<registry, declared>>

\* the nested builder on the mapping the normaliser returned
BuildOwned(c, flat, strict, n) ==
    BuiltOwned(c, flat, strict, n,
               cfg_from_nested_dict(heap, registry, c,
                                    DictV(Deref(n.store, Len(CallerMaps) + 1)),
                                    strict, << >>))

\* cfg_from_flat_dict(c, flat, strict) on a mapping whose dict values the
\* caller owns
CfgFromFlatDictOwned(c, flat, strict) ==
    BuildOwned(c, flat, strict, flat_dict_to_nested_in_place(CallerMaps, flat))

Instances == { o \in DOMAIN heap : heap[o].kind = "inst" }

Lists == { o \in DOMAIN heap : heap[o].kind = "list" }

Holding == live # << >> /\ res.op \in Constructors /\ res.exc = NoExc

\* the values an assignment or an append is tried with
Assigned == { IntV(5), StrV("2"), StrV("bad") }

\* the assignment has run with outcome r
Assign(o, name, value, r) ==
    /\ heap' = r.heap
    /\ res' = [NoRes EXCEPT !.op = "setattr", !.cls = heap[o].cls, !.obj = o,
                            !.name = name, !.val = value, !.exc = r.exc,
                            !.old = IF Has(heap[o].attrs, name)
                                    THEN Get(heap[o].attrs, name) ELSE Unset]
    /\ UNCHANGED <<registry, declared, live>>

\* o.name = value
SetAttr(o, name, value) ==
    /\ Holding
    /\ Assign(o, name, value, setattr(heap, o, name, value))

\* l.append(value) on a list object
ListAppend(l, value) ==
    /\ Holding
    /\ heap' = [heap EXCEPT ![l].items = Append(@, value)]
    /\ res' = [NoRes EXCEPT !.op = "append", !.obj = l, !.val = value]
    /\ UNCHANGED <<registry, declared, live>>

\* o.to_dict(flatten)
ToDict(o, flatten) ==
    /\ Holding
    /\ res' = [NoRes EXCEPT !.op = "to_dict", !.cls = heap[o].cls, !.obj = o,
                            !.strict = flatten, !.out = to_dict(heap, o, flatten, << >>)]
    /\ UNCHANGED <<heap, registry, declared, live>>

\* the flat mapping of o has been rebuilt with outcome r
Rebuilt(o, flat, strict, r) ==
    /\ heap' = r.heap
    /\ res' = [NoRes EXCEPT !.op = "rebuild", !.cls = heap[o].cls, !.obj = o,
                            !.arg = DictV(flat), !.strict = strict,
                            !.exc = r.exc, !.ref = r.ref]
    /\ UNCHANGED <<registry, declared, live>>

\* the flat mapping of o is given to the builder
RebuildFrom(o, flat, strict) ==
    Rebuilt(o, flat, strict, cfg_from_flat_dict(heap, registry, heap[o].cls, flat, strict))

\* cfg_from_flat_dict(type(o), o.to_dict(flatten=True), strict)
Rebuild(o, strict) ==
    /\ Holding
    /\ RebuildFrom(o, to_dict(heap, o, TRUE, << >>), strict)

\* the overrides make_config is tried with on an instance of class c
OverridePool(c) ==
    { e \in { <<"version", StrV("0.1.2")>>, <<"layers", IntV(8)>>, <<"lr", FloatV(5)>>,
              <<"num_heads", IntV(2)>>, <<"steps", IntV(8)>> } :
        Has(get_type_hints(c), e[1]) }

\* make_config has run with outcome r
MadeConfig(o, overrides, r) ==
    /\ heap' = r.heap
    /\ res' = [NoRes EXCEPT !.op = "make_config", !.cls = heap[o].cls, !.obj = o,
                            !.arg = DictV(overrides), !.exc = r.exc, !.ref = r.ref]
    /\ UNCHANGED <<registry, declared, live>>

\* make_config(o, **overrides)
MakeConfig(o, overrides) ==
    /\ Holding
    /\ MadeConfig(o, overrides, make_config(heap, registry, o, overrides))

\* the first call of a session constructs a config, with any arguments
First ==
    /\ res.op = "none"
    /\ \/ \E c \in BuildClasses, strict \in BOOLEAN :
            \E d \in EntrySeqs(NestedPool(RootOf(c)), MaxEntries) :
               CfgFromNestedDict(c, DictV(d), strict)
       \/ \E c \in BuildClasses, strict \in BOOLEAN :
            \E flat \in EntrySeqs(FlatPool(RootOf(c)), MaxEntries) :
               CfgFromFlatDict(c, flat, strict)
       \/ \E c \in BuildClasses :
            \E kwargs \in EntrySeqs(KwPool(RootOf(c)), MaxEntries) : New(c, kwargs)
       \/ \E value \in Assigned \cup {NoneV, FloatV(5), RefV(SchedulerDefault)},
             tp \in {TStr, TInt, TFloat, TOptInt, TIntOrList, TCfg("SchedulerConfig")},
             strict \in BOOLEAN : ParseValue(value, tp, strict)
       \/ \E c \in Classes, config_name \in LookupNames :
            GetSubclassByName(c, config_name)
       \/ \E flat \in EntrySeqs(NormPool, MaxEntries) : FlatDictToNested(flat)
       \/ \E flat \in EntrySeqs(OwnedPool, MaxEntries) : FlatDictToNestedOwned(flat)
       \/ \E strict \in BOOLEAN :
            \E flat \in EntrySeqs(OwnedPool, MaxEntries) :
               CfgFromFlatDictOwned("Config", flat, strict)

\* the caller repeats the call it has just made, with the same arguments
Again ==
    /\ Holding
    /\ Len(live) < MaxLive
    /\ \/ res.op = "nested" /\ CfgFromNestedDict(res.cls, res.arg, res.strict)
       \/ res.op = "flat" /\ CfgFromFlatDict(res.cls, res.arg.d, res.strict)
       \/ res.op = "new" /\ New(res.cls, res.arg.d)

Next ==
    \/ First
    \/ Again
    \/ \E o \in Instances, value \in Assigned :
         \E name \in KeysOf(get_type_hints(heap[o].cls)) \cup {"extra"} :
            SetAttr(o, name, value)
    \/ \E l \in Lists, value \in {StrV("x"), RefV(ConvLayerDefault)} : ListAppend(l, value)
    \/ \E i \in DOMAIN live, flatten \in BOOLEAN : ToDict(live[i].ref, flatten)
    \/ \E i \in DOMAIN live, strict \in BOOLEAN : Rebuild(live[i].ref, strict)
    \/ \E i \in DOMAIN live :
         \E overrides \in EntrySeqs(OverridePool(heap[live[i].ref].cls), 1) :
            MakeConfig(live[i].ref, overrides)

Spec == Init /\ [][Next]_vars

\* ---- a program whose class statements run one at a time ----

\* the interpreter has imported zencfg and no class statement has run
InitDecl ==
    /\ heap = << >>
    /\ registry = ("ConfigBase" :> << >>)
    /\ declared = << >>
    /\ live = << >>
    /\ res = NoRes

\* the classes the program declares, in any order that puts a base first
Declarable == {"ModelConfig", "DiT", "DIT", "Unet", "OptimizerConfig", "AdamW", "Dit"}

\* class c(parent): ... runs __init_subclass__
Declare(c) ==
    /\ \A i \in DOMAIN declared : declared[i] # c
    /\ \/ ClassTable[c].parent = "ConfigBase"
       \/ \E i \in DOMAIN declared : declared[i] = ClassTable[c].parent
    /\ registry' = init_subclass(registry, c)
    /\ declared' = Append(declared, c)
    /\ res' = [NoRes EXCEPT !.op = "declare", !.cls = c]
    /\ UNCHANGED <<heap, live>>

NextDecl == \E c \in Declarable : Declare(c)

SpecDecl == InitDecl /\ [][NextDecl]_vars

TypeOK ==
    /\ Len(live) <= MaxLive
    /\ \A i \in DOMAIN live : live[i].ref \in Instances
    /\ res.exc.type \in {"none", "ValueError", "TypeError", "AttributeError"}

(***************************************************************************)
(* Vocabulary of the properties                                            *)
(***************************************************************************)
\* getattr(o, name) for a name the instance holds
Attr(o, name) == Get(heap[o].attrs, name)

Holds(o, name) == Has(heap[o].attrs, name)

Ok == res.exc = NoExc

\* the mapping a build was given, as the nested builder receives it
GivenNested ==
    IF res.op = "flat"
    THEN LET n == flat_dict_to_nested(res.arg.d)
         IN IF n.exc = NoExc THEN DictV(n.d) ELSE NoneV
    ELSE res.arg

\* a value of the declared type, with no conversion left to do
WellTyped(tp, v) ==
    CASE tp.t = "str" -> v.k = "str"
      [] tp.t = "int" -> v.k = "int"
      [] tp.t = "float" -> v.k = "float"
      [] tp.t = "optint" -> v.k \in {"none", "int"}
      [] tp.t = "int_or_list" -> v.k = "int"
      [] tp.t = "cfg" -> IsInstance(heap, v, tp.c)
      [] tp.t = "listcfg" ->
            IsList(heap, v) /\ \A i \in DOMAIN heap[v.r].items :
                                  IsInstance(heap, heap[v.r].items[i], tp.c)
      [] OTHER -> FALSE

\* the class that assigns name closest to c in c's ancestry, "" when none does
RECURSIVE Assigner(_, _)
Assigner(c, name) ==
    IF Has(ClassTable[c].attrs, name) THEN c
    ELSE IF c = "ConfigBase" THEN ""
    ELSE Assigner(ClassTable[c].parent, name)

\* the declared type of field name, looked up from c through its ancestors
RECURSIVE DeclaredType(_, _)
DeclaredType(c, name) ==
    IF Has(ClassTable[c].ann, name) THEN Get(ClassTable[c].ann, name)
    ELSE IF c = "ConfigBase" THEN [t |-> "undeclared"]
    ELSE DeclaredType(ClassTable[c].parent, name)

\* the names declared on c or on an ancestor of c
RECURSIVE DeclaredNames(_)
DeclaredNames(c) ==
    KeysOf(ClassTable[c].ann)
    \cup (IF c = "ConfigBase" THEN { } ELSE DeclaredNames(ClassTable[c].parent))

\* the declared fields of c that no class of its ancestry gives a default
Required(c) == { f \in DeclaredNames(c) \ {"_config_name"} : Assigner(c, f) = "" }

\* the class a "_name" entry of mapping d selects under class c, "" when the
\* name selects none
Selected(c, d) ==
    IF ~Has(d, "_name") THEN c
    ELSE IF Get(d, "_name").k # "str" THEN ""
    ELSE LET n == Lower(Get(d, "_name").s)
             r == registry[RootOf(c)]
         IN IF n = Lower(c) THEN c
            ELSE IF Has(r, n) THEN Get(r, n)
            ELSE ""

\* the mapping a config field's value stands for
AsMapping(v) == IF v.k = "str" THEN << <<"_name", v>> >> ELSE v.d

\* two instances of the same concrete class at every level, field-wise equal
RECURSIVE SameConfig(_, _, _)
SameConfig(h, a, b) ==
    /\ h[a].cls = h[b].cls
    /\ KeysOf(h[a].attrs) \ {"_config_name"} = KeysOf(h[b].attrs) \ {"_config_name"}
    /\ \A f \in KeysOf(h[a].attrs) \ {"_config_name"} :
          LET x == Get(h[a].attrs, f)
              y == Get(h[b].attrs, f)
          IN IF x.k = "ref" /\ y.k = "ref" /\ h[x.r].kind = "inst" /\ h[y.r].kind = "inst"
             THEN SameConfig(h, x.r, y.r)
             ELSE PyEq(x, y)

\* the instance the caller holds at reference o was made by the builder
BuiltByBuilder(o) == \E i \in DOMAIN live : live[i].ref = o /\ live[i].by \in {"nested", "flat"}

(***************************************************************************)
(* C1  Round trip: for an instance i the builder produced,                 *)
(* cfg_from_flat_dict(type(i), i.to_dict(flatten=True)) succeeds and       *)
(* returns an instance of the same concrete class at every nesting level,  *)
(* field-wise equal to i.                                                  *)
(***************************************************************************)
C1_RoundTrip ==
    (res.op = "rebuild" /\ BuiltByBuilder(res.obj))
        => (Ok /\ SameConfig(heap, res.ref, res.obj))

(***************************************************************************)
(* Well-formed mappings and what they ask for                              *)
(***************************************************************************)
Fields(c) == DeclaredNames(c) \ {"_config_name"}

\* mapping d, given for a field or a call of declared class c, names a
\* selectable variant, only declared fields of it, a value of the declared
\* type for each scalar field, a clean mapping for each config field, and
\* supplies every required field
RECURSIVE Clean(_, _)
Clean(c, d) ==
    LET target == Selected(c, d)
    IN /\ target # ""
       /\ KeysOf(d) \subseteq Fields(target) \cup {"_name"}
       /\ Required(target) \subseteq KeysOf(d)
       /\ \A f \in KeysOf(d) \ {"_name"} :
             LET tp == DeclaredType(target, f)
                 v == Get(d, f)
             IN IF tp.t = "cfg"
                THEN v.k \in {"str", "dict"} /\ Clean(tp.c, AsMapping(v))
                ELSE WellTyped(tp, v)

\* the instance at o is what mapping d asks for under declared class c: the
\* selected class exactly, each supplied well-typed value, each inherited
\* default of an unsupplied field, and so on through the config fields
RECURSIVE Dispatched(_, _, _)
Dispatched(o, c, d) ==
    LET target == Selected(c, d)
    IN /\ heap[o].cls = target
       /\ \A f \in Fields(target) :
             LET tp == DeclaredType(target, f)
             IN IF Has(d, f)
                THEN /\ Holds(o, f)
                     /\ IF tp.t = "cfg"
                        THEN /\ Get(d, f).k \in {"str", "dict"}
                             /\ Attr(o, f).k = "ref"
                             /\ Dispatched(Attr(o, f).r, tp.c, AsMapping(Get(d, f)))
                        ELSE WellTyped(tp, Get(d, f)) => Attr(o, f) = Get(d, f)
                ELSE Assigner(target, f) # ""
                        => /\ Holds(o, f)
                           /\ PyEq(Attr(o, f), Get(ClassTable[Assigner(target, f)].attrs, f))

IsRoot(c) == c # "ConfigBase" /\ ClassTable[c].parent = "ConfigBase"

(***************************************************************************)
(* C2  Variant dispatch: for a category root R with a registered variant   *)
(* named n, cfg_from_nested_dict(R, {"_name": n, f: v, ...}) returns an    *)
(* instance whose class is exactly the class registered under n, each      *)
(* supplied field holding its value and each unsupplied field the          *)
(* variant's inherited default, recursively through the nested config      *)
(* fields selected by their own "_name".                                   *)
(***************************************************************************)
C2_VariantDispatch ==
    (/\ res.op = "nested"
     /\ IsRoot(res.cls)
     /\ Has(res.arg.d, "_name")
     /\ Get(res.arg.d, "_name").k = "str"
     /\ Has(registry[res.cls], Lower(Get(res.arg.d, "_name").s)))
        => /\ Ok => /\ heap[res.ref].cls
                         = Get(registry[res.cls], Lower(Get(res.arg.d, "_name").s))
                    /\ Dispatched(res.ref, res.cls, res.arg.d)
           /\ Clean(res.cls, res.arg.d) => Ok

C2_Witness ==
    /\ res.op = "nested"
    /\ res.cls = "ModelConfig"
    /\ Ok
    /\ Has(res.arg.d, "_name")
    /\ Get(res.arg.d, "_name") = StrV("compositemodel")
    /\ Has(res.arg.d, "submodel")
    /\ Get(res.arg.d, "submodel").k = "dict"
    /\ heap[res.ref].cls = "CompositeModel"
    /\ heap[Attr(res.ref, "submodel").r].cls = "DiT"
    /\ Attr(Attr(res.ref, "submodel").r, "layers") = IntV(8)
    /\ Attr(res.ref, "num_heads") = IntV(4)

(***************************************************************************)
(* Unknown keys of a mapping                                               *)
(***************************************************************************)
\* the mapping the last build was given, when it was given one
Given == IF GivenNested.k = "dict" THEN GivenNested.d ELSE << >>

\* the full dotted paths of the keys of mapping d, given for declared class
\* c, that are neither "_name" nor a declared field of the resolved variant,
\* through the mappings given for config fields
RECURSIVE UnknownPaths(_, _, _)
UnknownPaths(c, d, path) ==
    LET target == Selected(c, d)
    IN IF target = "" THEN { }
       ELSE { Append(path, k) : k \in KeysOf(d) \ (DeclaredNames(target) \cup {"_name"}) }
            \cup UNION { LET tp == DeclaredType(target, f)
                             v == Get(d, f)
                         IN IF tp.t = "cfg" /\ v.k \in {"str", "dict"}
                            THEN UnknownPaths(tp.c, AsMapping(v), Append(path, f))
                            ELSE { }
                         : f \in KeysOf(d) \cap DeclaredNames(target) }

\* mapping d without those keys
RECURSIVE Stripped(_, _)
Stripped(c, d) ==
    LET target == Selected(c, d)
        kept == SelectSeq(d, LAMBDA e : e[1] \in DeclaredNames(target) \cup {"_name"})
    IN IF target = "" THEN d
       ELSE [i \in DOMAIN kept |->
               IF DeclaredType(target, kept[i][1]).t = "cfg" /\ kept[i][2].k = "dict"
               THEN <<kept[i][1],
                      DictV(Stripped(DeclaredType(target, kept[i][1]).c, kept[i][2].d))>>
               ELSE kept[i]]

\* the last call was a build of a mapping that has an unknown key
BuildWithUnknownKey ==
    /\ res.op \in {"nested", "flat"}
    /\ GivenNested.k = "dict"
    /\ UnknownPaths(res.cls, Given, << >>) # { }

UnknownKeyError == res.exc.type = "ValueError" /\ res.exc.what = "UnknownKey"

(***************************************************************************)
(* C3  Unknown key rejection, as the claim states it: for every class,     *)
(* nesting depth and strictness, a build whose mapping has a key that is   *)
(* neither "_name" nor a declared field of the resolved variant fails with *)
(* an error naming the full dotted path of that key, and returns no        *)
(* instance.                                                               *)
(***************************************************************************)
C3_UnknownKeyNamed ==
    BuildWithUnknownKey
        => /\ UnknownKeyError
           /\ res.exc.path \in UnknownPaths(res.cls, Given, << >>)
           /\ res.ref = 0

(***************************************************************************)
(* C3  Unknown key rejection, amended: such a build always fails and       *)
(* returns no instance, whatever the strictness; an unknown-key error      *)
(* names the full dotted path of an unknown key of the mapping; an unknown *)
(* key at the top level is always the error; and at any depth the error is *)
(* the unknown-key error whenever the mapping without its unknown keys     *)
(* builds, that is unless the builder meets another defect first.          *)
(***************************************************************************)
C3_UnknownKeyFails ==
    BuildWithUnknownKey
        => /\ ~Ok
           /\ res.ref = 0
           /\ UnknownKeyError => res.exc.path \in UnknownPaths(res.cls, Given, << >>)
           /\ (\E p \in UnknownPaths(res.cls, Given, << >>) : Len(p) = 1)
                 => UnknownKeyError /\ Len(res.exc.path) = 1
           /\ cfg_from_nested_dict(heap, registry, res.cls,
                                   DictV(Stripped(res.cls, Given)), res.strict, << >>).exc
                 = NoExc
                 => UnknownKeyError

\* an unknown key two levels down is named by its full path, non-strictly
C3_Witness ==
    /\ res.op = "nested"
    /\ res.cls = "Config"
    /\ ~res.strict
    /\ <<"opt", "nope">> \in UnknownPaths(res.cls, Given, << >>)
    /\ UnknownKeyError
    /\ res.exc.path = <<"opt", "nope">>
    /\ res.ref = 0

(***************************************************************************)
(* The last construction: its class, what it was given, what it made       *)
(***************************************************************************)
\* the class the argument of the last construction resolves to
Target == IF res.op = "new" THEN res.cls ELSE Selected(res.cls, Given)

\* the field names the last construction was given a value for
SuppliedNames == IF res.op = "new" THEN KeysOf(res.arg.d) ELSE KeysOf(Given) \ {"_name"}

IsBuild == res.op \in {"nested", "flat"} /\ GivenNested.k = "dict"

\* getattr(o, name): the instance's own attribute, else the class attribute
GetAttr(o, name) ==
    IF Holds(o, name) THEN Attr(o, name) ELSE ClassGetAttr(heap[o].cls, name)

\* the keyword arguments kw of a direct instantiation of c name declared
\* fields only, each with a value of its declared type
CleanKwargs(c, kw) ==
    /\ KeysOf(kw) \subseteq Fields(c)
    /\ \A f \in KeysOf(kw) : WellTyped(DeclaredType(c, f), Get(kw, f))

\* mapping d is clean for declared class c in all but the required fields of
\* the selected variant, which it may leave out
Supplies(c, d) ==
    LET target == Selected(c, d)
    IN /\ target # ""
       /\ KeysOf(d) \subseteq Fields(target) \cup {"_name"}
       /\ \A f \in KeysOf(d) \ {"_name"} :
             LET tp == DeclaredType(target, f)
                 v == Get(d, f)
             IN IF tp.t = "cfg"
                THEN v.k \in {"str", "dict"} /\ Clean(tp.c, AsMapping(v))
                ELSE WellTyped(tp, v)

\* mapping d is clean for declared class c in all but the types of the values
\* it gives for scalar fields
SuppliesAnyTyped(c, d) ==
    LET target == Selected(c, d)
    IN /\ target # ""
       /\ KeysOf(d) \subseteq Fields(target) \cup {"_name"}
       /\ Required(target) \subseteq KeysOf(d)
       /\ \A f \in KeysOf(d) \ {"_name"} :
             LET tp == DeclaredType(target, f)
                 v == Get(d, f)
             IN /\ tp.t = "cfg" => v.k \in {"str", "dict"} /\ Clean(tp.c, AsMapping(v))
                /\ tp.t = "listcfg" => WellTyped(tp, v)

IsScalarType(tp) == tp.t \in {"str", "int", "float", "optint", "int_or_list"}

\* the value v parsed to the scalar type tp, strictly
Coerced(tp, v) == parse_value_to_type(heap, v, tp, TRUE, << >>)

Coercible(tp, v) == Coerced(tp, v).exc = NoExc

MissingRequiredError == res.exc.type = "ValueError" /\ res.exc.what = "MissingRequired"

(***************************************************************************)
(* C4  Strict missing field: building strictly, or directly instantiating, *)
(* a class that has a declared field (its own or an ancestor's) with no    *)
(* default anywhere in its ancestry and no supplied value fails with a     *)
(* missing-required-field error.  Stated for arguments that have no other  *)
(* defect.                                                                 *)
(***************************************************************************)
C4_StrictMissingField ==
    (/\ \/ res.op = "new" /\ CleanKwargs(res.cls, res.arg.d)
        \/ IsBuild /\ res.strict /\ Supplies(res.cls, Given)
     /\ Required(Target) \ SuppliedNames # { })
        => /\ MissingRequiredError
           /\ res.ref = 0

(***************************************************************************)
(* C5  Non-strict missing field: with strict=False a build that leaves a   *)
(* required field out always succeeds; the field is None when its declared *)
(* type is not a config type and a zero-argument instance of the declared  *)
(* config type otherwise.  Stated for mappings that have no other defect.  *)
(***************************************************************************)
C5_LaxMissingField ==
    (/\ IsBuild
     /\ ~res.strict
     /\ Supplies(res.cls, Given)
     /\ Required(Target) \ SuppliedNames # { })
        => /\ Ok
           /\ \A f \in Required(Target) \ SuppliedNames :
                 /\ Holds(res.ref, f)
                 /\ IF DeclaredType(Target, f).t = "cfg"
                    THEN /\ Attr(res.ref, f).k = "ref"
                         /\ heap[Attr(res.ref, f).r].kind = "inst"
                         /\ heap[Attr(res.ref, f).r].cls = DeclaredType(Target, f).c
                    ELSE Attr(res.ref, f) = NoneV

\* every scalar field mapping d supplies is held by instance o as the value
\* parsed to its declared type, own or inherited, through the config fields
RECURSIVE StoredParsed(_, _)
StoredParsed(o, d) ==
    \A f \in KeysOf(d) \cap Fields(heap[o].cls) :
        LET tp == DeclaredType(heap[o].cls, f)
            v == Get(d, f)
        IN /\ IsScalarType(tp)
                => /\ Holds(o, f)
                   /\ Coercible(tp, v)
                   /\ Attr(o, f) = Coerced(tp, v).v
           /\ (tp.t = "cfg" /\ v.k \in {"str", "dict"} /\ Holds(o, f) /\ Attr(o, f).k = "ref")
                => StoredParsed(Attr(o, f).r, AsMapping(v))

(***************************************************************************)
(* C6  String coercion on build: cfg_from_flat_dict(C, data, strict=True)  *)
(* stores every supplied scalar field as the value parsed to the field's   *)
(* declared type, whether the field is declared on the resolved variant    *)
(* itself or inherited from an ancestor.                                   *)
(***************************************************************************)
C6_StringCoercion ==
    (res.op = "flat" /\ res.strict /\ Ok /\ GivenNested.k = "dict")
        => StoredParsed(res.ref, Given)

\* the field the last assignment named has kept the value it had
KeptOld ==
    IF res.old = Unset THEN ~Holds(res.obj, res.name)
    ELSE Holds(res.obj, res.name) /\ Attr(res.obj, res.name) = res.old

(***************************************************************************)
(* C7  Validated assignment: setting a declared field, by a constructor    *)
(* keyword or by a later assignment, to a value that cannot be coerced to  *)
(* the declared type raises TypeError and the field keeps the value it had *)
(* (the invalid value is never stored); a coercible value is stored in its *)
(* coerced form.                                                           *)
(***************************************************************************)
C7_ValidatedAssignment ==
    /\ (/\ res.op = "setattr"
        /\ res.name \in Fields(res.cls)
        /\ IsScalarType(DeclaredType(res.cls, res.name)))
          => IF Coercible(DeclaredType(res.cls, res.name), res.val)
             THEN /\ Ok
                  /\ Attr(res.obj, res.name)
                        = Coerced(DeclaredType(res.cls, res.name), res.val).v
             ELSE /\ res.exc.type = "TypeError"
                  /\ KeptOld
    /\ (/\ res.op = "new"
        /\ KeysOf(res.arg.d) \subseteq Fields(res.cls)
        /\ Required(res.cls) \subseteq KeysOf(res.arg.d))
          => \A f \in KeysOf(res.arg.d) :
                IsScalarType(DeclaredType(res.cls, f))
                   => IF Coercible(DeclaredType(res.cls, f), Get(res.arg.d, f))
                      THEN Ok => Attr(res.ref, f)
                                    = Coerced(DeclaredType(res.cls, f), Get(res.arg.d, f)).v
                      ELSE res.exc.type = "TypeError" /\ res.ref = 0

\* the scalar fields the last build was given a value for that cannot be
\* coerced to the declared type
Mismatched ==
    { f \in SuppliedNames :
        /\ IsScalarType(DeclaredType(Target, f))
        /\ ~Coercible(DeclaredType(Target, f), Get(Given, f)) }

(***************************************************************************)
(* C8  Non-strict type mismatch: a build with strict=False that is given a *)
(* scalar value that cannot be coerced to its field's declared type does   *)
(* not fail; it emits a warning and the instance holds the raw value in    *)
(* that field.  Stated for mappings that have no other defect.             *)
(***************************************************************************)
C8_LaxTypeMismatch ==
    (/\ IsBuild
     /\ ~res.strict
     /\ SuppliesAnyTyped(res.cls, Given)
     /\ Mismatched # { })
        => /\ Ok
           /\ res.warned
           /\ \A f \in Mismatched : Holds(res.ref, f) /\ Attr(res.ref, f) = Get(Given, f)

\* every name a class body declares or assigns
AllNames == UNION { KeysOf(ClassTable[c].ann) \cup KeysOf(ClassTable[c].attrs) : c \in Classes }

(***************************************************************************)
(* C9  Default inheritance override: for every class B and field f,        *)
(* gather_defaults(B)[f] is the value the most-derived class of B's        *)
(* ancestry that assigns f gives it; a field with no default anywhere and  *)
(* the private names are absent (checked for every declared class, once   *)
(* the class statements have run); and an instance of B built or           *)
(* instantiated with no override for f holds that value.                   *)
(***************************************************************************)
C9_DefaultInheritance ==
    /\ res.op = "none"
          => \A B \in Classes :
                /\ \A f \in AllNames :
                      IF Assigner(B, f) # ""
                      THEN /\ Has(gather_defaults(B), f)
                           /\ Get(gather_defaults(B), f)
                                 = Get(ClassTable[Assigner(B, f)].attrs, f)
                      ELSE ~Has(gather_defaults(B), f)
                /\ KeysOf(gather_defaults(B)) \cap {"_config_name", "_registry"} = { }
    /\ (res.op \in Constructors /\ Ok)
          => \A f \in KeysOf(gather_defaults(heap[res.ref].cls)) \ SuppliedNames :
                PyEq(GetAttr(res.ref, f), Get(gather_defaults(heap[res.ref].cls), f))

\* FineTune redeclares seed = 2 over TrainConfig's seed = 1
C9_Witness ==
    /\ res.op = "new"
    /\ res.cls = "FineTune"
    /\ Ok
    /\ "seed" \notin SuppliedNames
    /\ Assigner("FineTune", "seed") = "FineTune"
    /\ Get(ClassTable["TrainConfig"].attrs, "seed") = IntV(1)
    /\ Get(gather_defaults("FineTune"), "seed") = IntV(2)
    /\ Attr(res.ref, "seed") = IntV(2)

(***************************************************************************)
(* C10  Unshared defaults: for a class whose default field value is a      *)
(* config instance or a list of config instances, two independently        *)
(* constructed instances (by __init__ or by the builder) hold distinct     *)
(* objects in that field, neither of them the class-level default.         *)
(***************************************************************************)
C10_UnsharedDefaults ==
    (res.op \in Constructors /\ Ok)
        => \A i, j \in DOMAIN live :
              (i < j /\ heap[live[i].ref].cls = heap[live[j].ref].cls)
                 => \A f \in KeysOf(gather_defaults(heap[live[i].ref].cls)) \ SuppliedNames :
                       Get(gather_defaults(heap[live[i].ref].cls), f).k = "ref"
                          => /\ GetAttr(live[i].ref, f) # GetAttr(live[j].ref, f)
                             /\ GetAttr(live[j].ref, f)
                                   # Get(gather_defaults(heap[live[i].ref].cls), f)

(***************************************************************************)
(* Variant lookup                                                          *)
(***************************************************************************)
\* the class whose registry a lookup on c consults
Category(c) == IF c = "ConfigBase" THEN c ELSE RootOf(c)

\* the declared classes below category root: the variants registered there
Variants(root) ==
    { Decls[i] : i \in { j \in DOMAIN Decls : /\ Decls[j] # root
                                              /\ root # "ConfigBase"
                                              /\ IsSubclass(Decls[j], root) } }

\* the names of a sequence
Range(q) == { q[i] : i \in DOMAIN q }

\* the failure of a lookup of name n on class c
UnknownVariantError(c, n) ==
    /\ res.exc.type = "ValueError"
    /\ res.exc.what = "UnknownSubclass"
    /\ res.exc.path[1] = Lower(n)
    /\ Range(Tail(res.exc.path)) = { Lower(d) : d \in Variants(Category(c)) }

\* the build of mapping d under class c meets a "_name" that names no variant
\* before anything else can fail
RECURSIVE Unresolvable(_, _)
Unresolvable(c, d) ==
    IF Has(d, "_name") /\ Get(d, "_name").k = "str" /\ ~Falsy(Get(d, "_name"))
       /\ Selected(c, d) = ""
    THEN TRUE
    ELSE /\ Selected(c, d) # ""
         /\ KeysOf(d) \subseteq DeclaredNames(Selected(c, d)) \cup {"_name"}
         /\ LET hints == get_type_hints(Selected(c, d))
            IN \E i \in DOMAIN hints :
                  /\ hints[i][2].t = "cfg"
                  /\ Has(d, hints[i][1])
                  /\ Get(d, hints[i][1]).k \in {"str", "dict"}
                  /\ \A j \in 1..(i - 1) :
                        /\ hints[j][2].t # "cfg"
                        /\ \/ Has(d, hints[j][1])
                           \/ HasClassAttr(Selected(c, d), hints[j][1])
                  /\ Unresolvable(hints[i][2].c, AsMapping(Get(d, hints[i][1])))

Below(root) == { c \in Range(declared) : c # root /\ IsSubclass(c, root) }

\* the class statement that ran last among those below root named n
LastNamed(root, n) ==
    declared[CHOOSE i \in DOMAIN declared :
                /\ declared[i] \in Below(root) /\ Lower(declared[i]) = n
                /\ \A j \in DOMAIN declared :
                      (declared[j] \in Below(root) /\ Lower(declared[j]) = n) => j <= i]

\* every category root has a registry of its own, one entry per lowercase
\* name, the entry being the last class declared below the root with the name
RegistryOK ==
    /\ DOMAIN registry = {"ConfigBase"} \cup { c \in Range(declared) : IsRoot(c) }
    /\ registry["ConfigBase"] = << >>
    /\ \A root \in DOMAIN registry \ {"ConfigBase"} :
          LET r == registry[root]
          IN /\ \A i, j \in DOMAIN r : r[i][1] = r[j][1] => i = j
             /\ KeysOf(r) = { Lower(c) : c \in Below(root) }
             /\ \A i \in DOMAIN r : r[i][2] = LastNamed(root, r[i][1])

\* a declaration leaves the registry of every other category root as it was
OtherRegistriesKept ==
    \A root \in DOMAIN registry :
       root # Category(res'.cls) =>
          /\ root \in DOMAIN registry'
          /\ registry'[root] = registry[root]

(***************************************************************************)
(* C12  Registry invariant: after any sequence of class declarations each  *)
(* category root has its own registry, in which every lowercase variant    *)
(* name maps to exactly one class, the most recently declared descendant   *)
(* of that root with that lowercase name (a redeclaration overwrites the   *)
(* earlier entry), and a declaration under one category root never adds,   *)
(* removes or changes an entry of another root's registry.                 *)
(***************************************************************************)
C12_RegistryInvariant == [][RegistryOK' /\ OtherRegistriesKept]_vars

C12_Witness ==
    /\ \E i, j, k \in DOMAIN declared :
          /\ i < j /\ j < k
          /\ declared[i] = "DiT" /\ declared[j] = "Dit" /\ declared[k] = "DIT"
    /\ Get(registry["ModelConfig"], "dit") = "DIT"
    /\ Get(registry["OptimizerConfig"], "dit") = "Dit"
    /\ res.op = "declare"

(***************************************************************************)
(* Vocabulary of the normaliser's properties                               *)
(***************************************************************************)
\* two mappings with the same keys and, key by key, the same values, the
\* order of the entries left aside
RECURSIVE DictEq(_, _)
DictEq(a, b) ==
    /\ KeysOf(a) = KeysOf(b)
    /\ \A key \in KeysOf(a) :
          LET x == Get(a, key)
              y == Get(b, key)
          IN IF x.k = "dict" /\ y.k = "dict" THEN DictEq(x.d, y.d) ELSE x = y

\* the leaves of a nested mapping as <<dotted key, value>>
RECURSIVE Leaves(_, _)
Leaves(d, prefix) ==
    UNION { IF d[i][2].k = "dict"
            THEN Leaves(d[i][2].d, Append(prefix, d[i][1]))
            ELSE { <<Append(prefix, d[i][1]), d[i][2]>> } : i \in DOMAIN d }

\* some mapping inside d, d included, is empty
RECURSIVE HasEmpty(_)
HasEmpty(d) ==
    \/ d = << >>
    \/ \E i \in DOMAIN d : d[i][2].k = "dict" /\ HasEmpty(d[i][2].d)

\* key p is a proper dotted prefix of key q
IsPrefix(p, q) == Len(p) < Len(q) /\ SubSeq(q, 1, Len(p)) = p

\* the flat mapping given to the normaliser or to the flat builder
Flat == res.arg.d

\* entry i of the flat mapping is a bare string under a prefix, and every
\* other entry is a key one segment deeper under the same prefix
BareWithDeeper(flat, i) ==
    /\ flat[i][2].k = "str"
    /\ Len(flat) > 1
    /\ \A j \in DOMAIN flat \ {i} :
          /\ IsPrefix(flat[i][1], flat[j][1])
          /\ Len(flat[j][1]) = Len(flat[i][1]) + 1
          /\ flat[j][1][Len(flat[j][1])] # "_name"

\* the flat mapping with the key of entry i spelt p._name
WithName(flat, i) == [flat EXCEPT ![i] = <<Append(flat[i][1], "_name"), flat[i][2]>>]

\* the orders in which the entries of flat can be written
Orders(flat) ==
    { [i \in DOMAIN flat |-> flat[f[i]]] :
        f \in { g \in [DOMAIN flat -> DOMAIN flat] :
                  \A a, b \in DOMAIN flat : g[a] = g[b] => a = b } }

(***************************************************************************)
(* C13  Promotion equivalence: for every prefix p, string s and deeper     *)
(* keys p.f1..p.fk, normalising a flat mapping with the bare entry p -> s  *)
(* and the entries p.fi -> vi yields the same nested mapping,              *)
(* {p: {"_name": s, f1: v1, ...}}, as normalising the mapping that has     *)
(* p._name -> s in place of p -> s, and building a config from either      *)
(* flat mapping gives field-wise equal instances of the same variant.      *)
(***************************************************************************)
C13_PromotionEquivalence ==
    /\ res.op = "normalize" =>
          \A i \in DOMAIN Flat :
             BareWithDeeper(Flat, i) =>
                /\ Ok
                /\ flat_dict_to_nested(WithName(Flat, i)).exc = NoExc
                /\ DictEq(res.out, flat_dict_to_nested(WithName(Flat, i)).d)
                /\ Leaves(res.out, << >>)
                      = { <<Flat[j][1], Flat[j][2]>> : j \in DOMAIN Flat \ {i} }
                        \cup { <<Append(Flat[i][1], "_name"), Flat[i][2]>> }
    /\ res.op = "flat" =>
          \A i \in DOMAIN Flat :
             (/\ BareWithDeeper(Flat, i)
              /\ Len(Flat[i][1]) = 1
              /\ DeclaredType(res.cls, Flat[i][1][1]).t = "cfg") =>
                LET alt == cfg_from_flat_dict(heap, registry, res.cls,
                                              WithName(Flat, i), res.strict)
                IN /\ Ok <=> alt.exc = NoExc
                   /\ Ok => SameConfig(alt.heap, res.ref, alt.ref)

(***************************************************************************)
(* C14  Shallowest-first normalisation: flat_dict_to_nested processes the  *)
(* entries in order of increasing key depth whatever the order of the keys *)
(* in the flat mapping, so the nested result is the same for every         *)
(* permutation of the entries; a bare variant-name entry p -> s is applied *)
(* before a deeper entry p.f -> v even when p.f appears first, and no      *)
(* deeper entry is lost.                                                   *)
(***************************************************************************)
C14_ShallowestFirst ==
    res.op = "normalize" =>
       /\ \A q \in Orders(Flat) :
             /\ Ok <=> flat_dict_to_nested(q).exc = NoExc
             /\ Ok => DictEq(res.out, flat_dict_to_nested(q).d)
       /\ \A i, j \in DOMAIN Flat :
             (j < i /\ Flat[i][2].k = "str" /\ IsPrefix(Flat[i][1], Flat[j][1])
              /\ Len(Flat) = 2)
                => /\ Ok
                   /\ <<Flat[j][1], Flat[j][2]>> \in Leaves(res.out, << >>)
                   /\ <<Append(Flat[i][1], "_name"), Flat[i][2]>> \in Leaves(res.out, << >>)

(***************************************************************************)
(* C19  Consistent collision policy: flat_dict_to_nested applies one and   *)
(* the same policy whenever an intermediate path segment already maps to   *)
(* a non-mapping value, whatever the type of that value (string, integer,  *)
(* float, None): the value is promoted to {"_name": value} and the descent *)
(* continues; promotion or collision error never depends on the type of    *)
(* the scalar already stored.                                              *)
(***************************************************************************)
C19_ConsistentCollisionPolicy ==
    (/\ res.op = "normalize"
     /\ Len(Flat) = 2
     /\ Flat[1][2].k # "dict"
     /\ IsPrefix(Flat[1][1], Flat[2][1]))
        => /\ Ok
           /\ Leaves(res.out, << >>)
                 = { <<Append(Flat[1][1], "_name"), Flat[1][2]>>, <<Flat[2][1], Flat[2][2]>> }

(***************************************************************************)
(* C20  Conflict-free normalisation: for every flat mapping in which no    *)
(* key is a dotted prefix of another key, flat_dict_to_nested returns a    *)
(* nested mapping that holds, for each entry k1.k2...kn -> v, the value v  *)
(* at path k1/k2/.../kn and has no other leaf, so that flattening the      *)
(* result with the dot separator gives back exactly the input mapping.     *)
(***************************************************************************)
PrefixFree(flat) == \A i, j \in DOMAIN flat : ~IsPrefix(flat[i][1], flat[j][1])

C20_ConflictFree ==
    (res.op = "normalize" /\ PrefixFree(Flat))
        => /\ Ok
           /\ Leaves(res.out, << >>) = { <<Flat[i][1], Flat[i][2]>> : i \in DOMAIN Flat }
           /\ Flat # << >> => ~HasEmpty(res.out)
           /\ \A i \in DOMAIN res.out : \A j \in DOMAIN res.out :
                 res.out[i][1] = res.out[j][1] => i = j

C20_Witness ==
    /\ res.op = "normalize"
    /\ Len(Flat) = 2
    /\ PrefixFree(Flat)
    /\ Flat[1][1] = <<"model", "layers">>
    /\ Flat[2][1] = <<"model", "params", "depth">>
    /\ res.out = << <<"model", DictV(<< <<"layers", IntV(8)>>,
                                        <<"params", DictV(<< <<"depth", IntV(2)>> >>)>> >>)>> >>

(***************************************************************************)
(* C15  make_config on an instance: make_config(source_instance,           *)
(* **overrides) applies the overrides to a copy: the returned config is an *)
(* object distinct from source_instance, of the same concrete class (and   *)
(* the same concrete variant in every nested config field), holding the    *)
(* override value in each overridden field and source_instance's value in  *)
(* every other field, and source_instance is left unchanged; this holds    *)
(* for every set of overrides, the empty set included.                     *)
(***************************************************************************)
\* field f of the copy c holds what field f of the source o holds
SameField(h, o, c, f) ==
    /\ Has(h[o].attrs, f) <=> Has(h[c].attrs, f)
    /\ Has(h[o].attrs, f) =>
          LET x == Get(h[o].attrs, f)
              y == Get(h[c].attrs, f)
          IN IF x.k = "ref" /\ y.k = "ref" /\ h[x.r].kind = "inst" /\ h[y.r].kind = "inst"
             THEN SameConfig(h, x.r, y.r)
             ELSE PyEq(x, y)

C15_MakeConfigCopies ==
    [][res'.op = "make_config" =>
         /\ res'.exc = NoExc
         /\ res'.ref # res'.obj
         /\ res'.ref \notin DOMAIN heap
         /\ heap'[res'.ref].cls = heap[res'.obj].cls
         /\ \A f \in KeysOf(res'.arg.d) :
               /\ Has(heap'[res'.ref].attrs, f)
               /\ PyEq(Get(heap'[res'.ref].attrs, f), Get(res'.arg.d, f))
         /\ \A f \in (KeysOf(heap[res'.obj].attrs) \cup KeysOf(heap'[res'.ref].attrs))
                      \ (KeysOf(res'.arg.d) \cup {"_config_name"}) :
               SameField(heap', res'.obj, res'.ref, f)
         /\ \A o \in DOMAIN heap : heap'[o] = heap[o]]_vars

(***************************************************************************)
(* C16  Completeness invariant: every config instance handed back by the   *)
(* builder or by direct instantiation has a value for every field declared *)
(* on its concrete class or on any of its ancestors; a class whose         *)
(* required field is declared only on an ancestor (while the class         *)
(* declares other annotated fields of its own) cannot be instantiated      *)
(* without supplying that field.                                           *)
(***************************************************************************)
C16_Completeness ==
    /\ (res.op \in Constructors /\ Ok) =>
          \A f \in Fields(heap[res.ref].cls) : HasAttr(heap, res.ref, f)
    /\ (/\ res.op = "new"
        /\ ~Has(res.arg.d, "_config_name")
        /\ ClassTable[res.cls].ann # << >>
        /\ \E f \in Required(res.cls) \ KeysOf(ClassTable[res.cls].ann) :
              ~Has(res.arg.d, f))
          => ~Ok

(***************************************************************************)
(* C18  Instance pass-through: when the nested mapping given to the        *)
(* builder supplies, for a field whose declared type is (or contains) a    *)
(* config-type, a value that is already an instance of the expected config *)
(* class, the build succeeds and the resulting instance holds that same    *)
(* object unchanged in the field; only values that are neither an          *)
(* instance, a string nor a mapping fail with a type error.                *)
(***************************************************************************)
\* mapping d without its entry for key f
Without(d, f) == SelectSeq(d, LAMBDA e : e[1] # f)

C18_InstancePassThrough ==
    /\ \A f \in KeysOf(Given) :
          (/\ IsBuild
           /\ Selected(res.cls, Given) # ""
           /\ DeclaredType(Selected(res.cls, Given), f).t = "cfg"
           /\ IsInstance(heap, Get(Given, f), DeclaredType(Selected(res.cls, Given), f).c)
           /\ Supplies(res.cls, Without(Given, f))
           /\ Required(Selected(res.cls, Given)) \subseteq KeysOf(Given))
             => /\ Ok
                /\ Attr(res.ref, f) = Get(Given, f)
    /\ (/\ IsBuild
        /\ res.exc.what = "InvalidValueType"
        /\ Len(res.exc.path) = 1)
          => /\ Get(Given, res.exc.path[1]).k \notin {"str", "dict"}
             /\ ~IsInstance(heap, Get(Given, res.exc.path[1]),
                            DeclaredType(Selected(res.cls, Given), res.exc.path[1]).c)

(***************************************************************************)
(* C17  Config-field typing invariant: in every instance returned by the   *)
(* builder, a field whose declared type is a config class D holds either   *)
(* None or an instance of D or of a subclass of D, never a raw mapping or  *)
(* string; in particular, when the field's mapping carries a "_name" that  *)
(* names a registered sibling variant that is not a subclass of D (e.g.    *)
(* "unet" for a field declared as DiT), the build does not store an        *)
(* instance of that sibling.                                               *)
(***************************************************************************)
C17_ConfigFieldTyping ==
    (res.op \in {"nested", "flat"} /\ Ok) =>
       \A f \in Fields(heap[res.ref].cls) :
          (DeclaredType(heap[res.ref].cls, f).t = "cfg" /\ Holds(res.ref, f)) =>
             \/ Attr(res.ref, f) = NoneV
             \/ IsInstance(heap, Attr(res.ref, f), DeclaredType(heap[res.ref].cls, f).c)

(***************************************************************************)
(* C21  Input frame: neither flat_dict_to_nested / cfg_from_flat_dict nor  *)
(* cfg_from_nested_dict modifies the mapping passed by the caller or any   *)
(* value reachable from it, on success and on every failure: after the     *)
(* call the caller's flat or nested mapping (a mapping-valued entry such   *)
(* as {"model": {...}} combined with a deeper key "model.x" included) has  *)
(* exactly the keys and values it had before, and the variant registry is  *)
(* unchanged.                                                              *)
(***************************************************************************)
\* the dict objects as the call left them
StoreAfter == Get(res.out, "store")

C21_InputFrame ==
    /\ res.op \in {"normalize_owned", "flat_owned"} =>
          \A i \in DOMAIN CallerMaps : StoreAfter[i] = CallerMaps[i]
    /\ registry = DeclareAll(("ConfigBase" :> << >>), declared)

====
